---- MODULE Spec2Model ----
(***************************************************************************)
(* Orchestration layer of the SLV housing-market backend:                  *)
(*   GeminiRateLimiter       (backend/app/services/rate_limiter.py)        *)
(*   AIResponseCache         (backend/app/services/ai_cache.py)            *)
(*   PropertyAnalysisService (backend/app/services/                        *)
(*                            property_analysis_service.py)                *)
(*   the property-ai router  (backend/app/routers/property_ai.py)          *)
(*                                                                         *)
(* Time is counted in ticks of 0.1 s, the resolution of the safety margin  *)
(* that acquire() adds to its sleep.  The code runs on one asyncio event   *)
(* loop: a coroutine gives up control only inside asyncio.sleep, so every  *)
(* action below is the code between two suspension points.                 *)
(***************************************************************************)
EXTENDS Integers, Sequences, FiniteSets, TLC

\* ------------------------------------------------------------------ bounds
\* number of coroutines calling one limiter directly
NTasks == 3
\* number of coroutines handling requests
NHandlers == 2
\* total number of requests started in one behaviour
MaxRequests == 2
\* number of explicit clock advances while requests are handled
MaxWaits == 2
\* longest time ExternalModel.generate takes, in ticks
MaxCallTime == 20
\* AIResponseCache(max_size = 500) that every service gets, scaled down
CacheMaxSize == 2
\* total number of acquire() calls started in one behaviour
MaxCalls == 4
\* number of explicit clock advances in one behaviour
MaxTicks == 2
\* number of callers, and of explicit clock advances, where every sleep is
\* followed to its end
NWaiters == 2
MaxSteps == 2
\* number of calls made on a cache directly
MaxOps == 4
\* number of candidates of a pool that is scored
MaxPool == 3
MaxDom == 10
\* the limits of the limiter exercised directly: GeminiRateLimiter(2, 3)
PerMinute == 2
PerDay == 3
\* the defaults of GeminiRateLimiter(max_requests_per_minute = 15,
\* max_requests_per_day = 1500) that every service gets, scaled down
max_requests_per_minute == 1
max_requests_per_day == 1

\* --------------------------------------------------------------- constants
\* ticks per second: asyncio.sleep(wait_time + 0.1) has a resolution of 0.1 s
TicksPerSecond == 10
\* the 0.1 s safety margin of the sleep, in ticks
SleepBuffer == 1
minute_window == 60 * TicksPerSecond
day_window == 86400 * TicksPerSecond

Callers == 1..NTasks
Waiters == 1..NWaiters
Handlers == 1..NHandlers
Tasks == Callers \cup Handlers
\* the value None of an optional field
None == -1

\* clock advances offered to the environment besides "until a sleeper is due"
LimiterSteps == {30 * TicksPerSecond, day_window}

VARIABLES
    now,        \* time.time(), in ticks
    ticks,      \* number of clock advances so far
    ncalls,     \* number of calls started so far
    lim,        \* lim[s]: the GeminiRateLimiter of service s
    admitted,   \* admitted[s]: timestamps lim[s] admitted since it was built or reset
    pc,         \* pc[t]: where coroutine t stands
    wakeAt,     \* wakeAt[t]: earliest time the sleep of coroutine t returns
    obs,        \* obs[t]: what the current or last acquire() of t did
    cache,      \* cache[s]: the AIResponseCache of service s
    req,        \* req[t]: the request coroutine t handles or handled last
    resp,       \* resp[t]: what the last completed request of t returned or raised
    run,        \* run[t]: what the current or last pipeline run of t did
    lastDone,   \* the request completed last in the process
    calls,      \* times at which ExternalModel.generate was called
    op,         \* the last call made on the cache directly, and what it returned
    scoring     \* a candidate pool with criteria, and what _score_properties made of it

limVars == <<lim, admitted>>
taskVars == <<pc, wakeAt, obs>>
svcVars == <<cache, req, resp, run, lastDone, calls, op, scoring>>
vars == <<now, ticks, ncalls, lim, admitted, pc, wakeAt, obs,
          cache, req, resp, run, lastDone, calls, op, scoring>>

\* the service shared by all coroutines of the service-level specifications
Shared == 0
Services == {Shared} \cup Tasks

\* ------------------------------------------------------- GeminiRateLimiter
\* __init__: the two limits and both request lists empty
GeminiRateLimiter(per_minute, per_day) ==
    [max_per_minute |-> per_minute, max_per_day |-> per_day,
     minute_requests |-> <<>>, day_requests |-> <<>>]

\* the purge that keeps a timestamp exactly one window old
_cleanup_keeps_boundary(L, current_time) ==
    [L EXCEPT !.minute_requests = SelectSeq(@, LAMBDA x : current_time - x <= minute_window),
              !.day_requests    = SelectSeq(@, LAMBDA x : current_time - x <= day_window)]

_cleanup_old_requests(L, current_time) ==
    [L EXCEPT !.minute_requests = SelectSeq(@, LAMBDA x : current_time - x < minute_window),
              !.day_requests    = SelectSeq(@, LAMBDA x : current_time - x < day_window)]

\* while len(self.minute_requests) >= self.max_per_minute
MinuteAtCapacityOffByOne(L) == Len(L.minute_requests) > L.max_per_minute
MinuteAtCapacity(L) == Len(L.minute_requests) >= L.max_per_minute

\* if len(self.day_requests) >= self.max_per_day
DayAtCapacityOffByOne(L) == Len(L.day_requests) > L.max_per_day
DayAtCapacity(L) == Len(L.day_requests) >= L.max_per_day

\* wait_time = window - (now - oldest_request)
wait_time_elapsed(window, t, oldest_request) == t - oldest_request
wait_time(window, t, oldest_request) == window - (t - oldest_request)

\* a pass of acquire() that records the request before the daily check, so
\* that a refused request is recorded too
acquire_records_refused(L, t) ==
    LET C == _cleanup_old_requests(L, t)
        full == MinuteAtCapacity(C)
        mwait == IF full THEN wait_time(minute_window, t, C.minute_requests[1]) ELSE 0
    IN  IF full /\ mwait > 0
        THEN [outcome |-> "sleep", lim |-> C, wake |-> t + mwait + SleepBuffer,
              minutes |-> 0, oldest |-> C.minute_requests[1]]
        ELSE LET B == IF full THEN _cleanup_old_requests(C, t) ELSE C
                 dfull == DayAtCapacity(B)
                 dwait == IF dfull THEN wait_time(day_window, t, B.day_requests[1]) ELSE 0
                 R == [B EXCEPT !.minute_requests = Append(@, t),
                                !.day_requests    = Append(@, t)]
             IN  IF dfull /\ dwait > 0
                 THEN [outcome |-> "quota", lim |-> R, wake |-> 0,
                       minutes |-> dwait \div (60 * TicksPerSecond), oldest |-> None]
                 ELSE [outcome |-> "admit", lim |-> R,
                       wake |-> 0, minutes |-> 0, oldest |-> None]

\* a pass of acquire() that returns without recording the request
acquire_unrecorded(L, t) ==
    LET C == _cleanup_old_requests(L, t)
        full == MinuteAtCapacity(C)
        mwait == IF full THEN wait_time(minute_window, t, C.minute_requests[1]) ELSE 0
    IN  IF full /\ mwait > 0
        THEN [outcome |-> "sleep", lim |-> C, wake |-> t + mwait + SleepBuffer,
              minutes |-> 0, oldest |-> C.minute_requests[1]]
        ELSE LET B == IF full THEN _cleanup_old_requests(C, t) ELSE C
                 dfull == DayAtCapacity(B)
                 dwait == IF dfull THEN wait_time(day_window, t, B.day_requests[1]) ELSE 0
             IN  IF dfull /\ dwait > 0
                 THEN [outcome |-> "quota", lim |-> B, wake |-> 0,
                       minutes |-> dwait \div (60 * TicksPerSecond), oldest |-> None]
                 ELSE [outcome |-> "admit", lim |-> B,
                       wake |-> 0, minutes |-> 0, oldest |-> None]

\* One pass of acquire() from a reading of the clock to the next suspension
\* or to its end.  The code after the sleep (now = time.time(); cleanup; loop
\* test) is the code at entry, so the same pass serves both.
\*   outcome "sleep": suspended in asyncio.sleep until `wake`
\*   outcome "quota": raised "Daily API quota exceeded. Try again in `minutes`"
\*   outcome "admit": t appended to both lists
acquire(L, t) ==
    LET C == _cleanup_old_requests(L, t)
        full == MinuteAtCapacity(C)
        mwait == IF full THEN wait_time(minute_window, t, C.minute_requests[1]) ELSE 0
    IN  IF full /\ mwait > 0
        THEN [outcome |-> "sleep", lim |-> C, wake |-> t + mwait + SleepBuffer,
              minutes |-> 0, oldest |-> C.minute_requests[1]]
        ELSE LET B == IF full THEN _cleanup_old_requests(C, t) ELSE C
                 dfull == DayAtCapacity(B)
                 dwait == IF dfull THEN wait_time(day_window, t, B.day_requests[1]) ELSE 0
             IN  IF dfull /\ dwait > 0
                 THEN [outcome |-> "quota", lim |-> B, wake |-> 0,
                       minutes |-> dwait \div (60 * TicksPerSecond), oldest |-> None]
                 ELSE [outcome |-> "admit",
                       lim |-> [B EXCEPT !.minute_requests = Append(@, t),
                                         !.day_requests    = Append(@, t)],
                       wake |-> 0, minutes |-> 0, oldest |-> None]

\* get_requests_remaining(): purge, then the used/remaining/limit snapshot
get_requests_remaining(L, t) ==
    LET C == _cleanup_old_requests(L, t)
    IN  [lim |-> C,
         minute |-> [used |-> Len(C.minute_requests),
                     remaining |-> C.max_per_minute - Len(C.minute_requests),
                     limit |-> C.max_per_minute],
         day    |-> [used |-> Len(C.day_requests),
                     remaining |-> C.max_per_day - Len(C.day_requests),
                     limit |-> C.max_per_day]]

\* reset()
reset(L) == [L EXCEPT !.minute_requests = <<>>, !.day_requests = <<>>]

\* ------------------------------------------------------------------ values
\* Strings are sequences of character codes; NoneStr is None in a string field.
NoneStr == <<None>>
\* Python truthiness of an optional number and of an optional string
Truthy(x) == x # None /\ x # 0
TruthyStr(s) == s # NoneStr /\ s # <<>>
\* str.lower() on the letters A-Z
lower(s) == [i \in DOMAIN s |-> IF s[i] \in 65..90 THEN s[i] + 32 ELSE s[i]]
\* `sub in s`
Contains(s, sub) ==
    \E k \in 0..(Len(s) - Len(sub)) : \A i \in 1..Len(sub) : s[k + i] = sub[i]
\* column.ilike('%sub%'); NULL matches nothing
ilike(s, sub) == s # NoneStr /\ Contains(lower(s), lower(sub))

Sandy == <<83, 97, 110, 100, 121>>
Draper == <<68, 114, 97, 112, 101, 114>>
Provo == <<80, 114, 111, 118, 111>>
str_all == <<97, 108, 108>>
str_general == <<103, 101, 110, 101, 114, 97, 108>>
str_30d == <<51, 48, 100>>
str_family == <<102, 97, 109, 105, 108, 121>>

\* The rows of the properties table (models/property.py), the columns the
\* analysis service reads.  price and address are NOT NULL; the address is
\* carried by the id.
Properties == {
    [id |-> 7,  price |-> 400000, beds |-> 3, baths |-> 2, sqft |-> 2000,
     price_per_sqft |-> 200, total_monthly_cost |-> 2500, city |-> Sandy,
     days_on_market |-> 10],
    [id |-> 42, price |-> 300000, beds |-> 2, baths |-> 1, sqft |-> 1200,
     price_per_sqft |-> 250, total_monthly_cost |-> 2000, city |-> Draper,
     days_on_market |-> 30],
    [id |-> 13, price |-> 350000, beds |-> None, baths |-> None, sqft |-> None,
     price_per_sqft |-> None, total_monthly_cost |-> None, city |-> NoneStr,
     days_on_market |-> None],
    [id |-> 21, price |-> 500000, beds |-> 4, baths |-> 3, sqft |-> 2500,
     price_per_sqft |-> None, total_monthly_cost |-> None, city |-> Sandy,
     days_on_market |-> 60] }

\* ----------------------------------------------------------------- storage
\* a set of rows as a list ordered by total_monthly_cost ascending (NULLs
\* last, as PostgreSQL orders them), rows of equal cost by id
RECURSIVE OrderByMonthlyCost(_)
OrderByMonthlyCost(rows) ==
    IF rows = {} THEN <<>>
    ELSE LET before(a, b) ==
                 \/ a.total_monthly_cost # None /\ b.total_monthly_cost = None
                 \/ a.total_monthly_cost # None /\ b.total_monthly_cost # None
                      /\ a.total_monthly_cost < b.total_monthly_cost
                 \/ a.total_monthly_cost = b.total_monthly_cost /\ a.id < b.id
             first == CHOOSE a \in rows : \A b \in rows \ {a} : before(a, b)
         IN  <<first>> \o OrderByMonthlyCost(rows \ {first})

Prefix(q, n) == SubSeq(q, 1, IF n < Len(q) THEN n ELSE Len(q))

\* the filters dict of the service: each field None when not given
NoFilters == [price_min |-> None, price_max |-> None, beds |-> None,
              baths |-> None, city |-> NoneStr]

\* _fetch_properties(filters, limit): a comparison with a NULL column is not true
_fetch_properties(filters, limit) ==
    LET ok(p) ==
            /\ Truthy(filters.price_min) => p.price >= filters.price_min
            /\ Truthy(filters.price_max) => p.price <= filters.price_max
            /\ Truthy(filters.beds) => (p.beds # None /\ p.beds >= filters.beds)
            /\ Truthy(filters.baths) => (p.baths # None /\ p.baths >= filters.baths)
            /\ TruthyStr(filters.city) => ilike(p.city, filters.city)
    IN  Prefix(OrderByMonthlyCost({p \in Properties : ok(p)}), limit)

\* self.db.query(Property).filter(Property.id.in_(property_ids)).all()
fetch_by_ids(property_ids) ==
    {p \in Properties : \E i \in DOMAIN property_ids : property_ids[i] = p.id}

\* ----------------------------------------------------------------- results
\* str(e) of an exception: its text and, for the quota error, the minutes
NoError == [msg |-> "", minutes |-> 0]
QuotaError(minutes) == [msg |-> "Daily API quota exceeded. Try again in N minutes.",
                        minutes |-> minutes]
ModelError == [msg |-> "model call failed", minutes |-> 0]
FormatError == [msg |-> "unsupported format string passed to NoneType.__format__",
                minutes |-> 0]
AttributeError == [msg |-> "'NoneType' object has no attribute", minutes |-> 0]
TooFewError == [msg |-> "At least 2 properties required for comparison", minutes |-> 0]
TooManyError == [msg |-> "Maximum 5 properties can be compared at once", minutes |-> 0]
NotFoundError == [msg |-> "One or more properties not found", minutes |-> 0]

\* The result dict of the four analyses, the fields the claims speak of:
\*   text           what the summary / analysis / message field holds:
\*                  "ai" a field of the parsed reply, "raw" the whole reply,
\*                  "default" a fixed text, "fallback" the generated text,
\*                  "none_found" the nothing-found text
\*   structured     whether the structured sub-fields come from the reply
\*   count          properties_analyzed / number of candidates
\*   properties     compare: <<property_id, property_letter>> in list order
\*   recommendations  recommend: <<property_id, match_score in tenths>>
\*   winner         compare fallback: letter of the monthly-budget winner
\*   from_cache     absent until the pipeline sets it; absent reads as FALSE
Result(kind, text, structured, confidence, count) ==
    [kind |-> kind, text |-> text, structured |-> structured,
     confidence |-> confidence, count |-> count, properties |-> <<>>,
     recommendations |-> <<>>, winner |-> None, market_temperature |-> "",
     error |-> NoError, from_cache |-> FALSE]

\* the value None where a result is expected
NoResult == Result("", "", FALSE, "", 0)

\* ----------------------------------------------------------- AIResponseCache
\* __init__: the dict is kept as the list of its entries in insertion order
AIResponseCache(max_size, default_ttl) ==
    [max_size |-> max_size, default_ttl |-> default_ttl, cache |-> <<>>]

\* A dict of keyword arguments is the list of its <<name, value>> pairs in the
\* order they were supplied. ParamNames lists the names in the order in which
\* sort_keys compares them.
ParamNames == <<"aspects", "baths_min", "beds_min", "budget_max", "city_preference",
                "filters", "focus", "lifestyle", "max_properties",
                "max_recommendations", "priorities",
                "property_ids", "region", "time_period">>
\* json.dumps(params) without sort_keys: the pairs in the order of the dict
json_dumps_unsorted(params) == params
\* json.dumps(params, sort_keys=True): the pairs in the order of their names
json_dumps(params) ==
    LET given == {params[j][1] : j \in DOMAIN params}
        names == SelectSeq(ParamNames, LAMBDA name : name \in given)
    IN  [k \in DOMAIN names |->
            params[CHOOSE j \in DOMAIN params : params[j][1] = names[k]]]

\* _generate_cache_key: "ai:<type>:<md5 of json.dumps(params, sort_keys=True)>".
\* The digest is taken to be free of collisions.
_generate_cache_key(analysis_type, params) ==
    [analysis_type |-> analysis_type, digest |-> json_dumps(params)]

generate_key(analysis_type, kwargs) == _generate_cache_key(analysis_type, kwargs)

\* position of cache_key in the dict, 0 when absent
Position(C, cache_key) ==
    IF \E i \in DOMAIN C.cache : C.cache[i].key = cache_key
    THEN CHOOSE i \in DOMAIN C.cache : C.cache[i].key = cache_key
    ELSE 0

Remove(q, i) == SubSeq(q, 1, i - 1) \o SubSeq(q, i + 1, Len(q))

\* if now > entry["expires_at"]
ExpiredAtOrAfter(entry, t) == t >= entry.expires_at
Expired(entry, t) == t > entry.expires_at

\* get(cache_key) without the del of the expired entry
get_keeps_expired(C, cache_key, t) ==
    LET i == Position(C, cache_key)
    IN  IF i = 0 \/ Expired(C.cache[i], t)
        THEN [cache |-> C, hit |-> FALSE, data |-> NoResult]
        ELSE [cache |-> [C EXCEPT !.cache[i].last_accessed = t],
              hit |-> TRUE, data |-> C.cache[i].data]

\* get(cache_key) with a sliding expiry: a hit restarts the life of the entry
get_extends_expiry(C, cache_key, t) ==
    LET i == Position(C, cache_key)
    IN  IF i = 0 THEN [cache |-> C, hit |-> FALSE, data |-> NoResult]
        ELSE IF Expired(C.cache[i], t)
        THEN [cache |-> [C EXCEPT !.cache = Remove(@, i)], hit |-> FALSE, data |-> NoResult]
        ELSE [cache |-> [C EXCEPT !.cache[i].last_accessed = t,
                                  !.cache[i].expires_at = t + (@ - C.cache[i].created_at)],
              hit |-> TRUE, data |-> C.cache[i].data]

\* get(cache_key) at time t: the new cache, and the data or None
get(C, cache_key, t) ==
    LET i == Position(C, cache_key)
    IN  IF i = 0 THEN [cache |-> C, hit |-> FALSE, data |-> NoResult]
        ELSE IF Expired(C.cache[i], t)
        THEN [cache |-> [C EXCEPT !.cache = Remove(@, i)], hit |-> FALSE, data |-> NoResult]
        ELSE [cache |-> [C EXCEPT !.cache[i].last_accessed = t],
              hit |-> TRUE, data |-> C.cache[i].data]

\* eviction of the entry inserted first
_evict_first(C) == IF C.cache = <<>> THEN C ELSE [C EXCEPT !.cache = Tail(@)]

\* _evict_lru(): delete the entry of least last_accessed, the first such in
\* dict order (min over the keys)
_evict_lru(C) ==
    IF C.cache = <<>> THEN C
    ELSE LET i == CHOOSE i \in DOMAIN C.cache :
                     /\ \A j \in DOMAIN C.cache : C.cache[i].last_accessed <= C.cache[j].last_accessed
                     /\ \A j \in 1..(i - 1) : C.cache[j].last_accessed > C.cache[i].last_accessed
         IN  [C EXCEPT !.cache = Remove(@, i)]

\* set(cache_key, data, ttl) without the eviction of a full cache
set_without_eviction(C, cache_key, data, ttl, t) ==
    LET life == IF ttl = None \/ ttl = 0 THEN C.default_ttl ELSE ttl
        entry == [key |-> cache_key, data |-> data, created_at |-> t,
                  last_accessed |-> t, expires_at |-> t + life]
        i == Position(C, cache_key)
    IN  IF i = 0 THEN [C EXCEPT !.cache = Append(@, entry)]
        ELSE [C EXCEPT !.cache[i] = entry]

\* set(cache_key, data, ttl) that leaves the entry of a stored key as it is
set_keeps_present(C, cache_key, data, ttl, t) ==
    LET life == IF ttl = None \/ ttl = 0 THEN C.default_ttl ELSE ttl
        E == IF Len(C.cache) >= C.max_size THEN _evict_lru(C) ELSE C
        entry == [key |-> cache_key, data |-> data, created_at |-> t,
                  last_accessed |-> t, expires_at |-> t + life]
        i == Position(E, cache_key)
    IN  IF i = 0 THEN [E EXCEPT !.cache = Append(@, entry)] ELSE E

\* set(cache_key, data, ttl) whose eviction takes an expired entry, the first
\* in dict order, when there is one
set_evicts_expired_first(C, cache_key, data, ttl, t) ==
    LET life == IF ttl = None \/ ttl = 0 THEN C.default_ttl ELSE ttl
        dead == {i \in DOMAIN C.cache : Expired(C.cache[i], t)}
        E == IF Len(C.cache) >= C.max_size
             THEN IF dead = {} THEN _evict_lru(C)
                  ELSE [C EXCEPT !.cache = Remove(@, CHOOSE i \in dead : \A j \in dead : i <= j)]
             ELSE C
        entry == [key |-> cache_key, data |-> data, created_at |-> t,
                  last_accessed |-> t, expires_at |-> t + life]
        i == Position(E, cache_key)
    IN  IF i = 0 THEN [E EXCEPT !.cache = Append(@, entry)]
        ELSE [E EXCEPT !.cache[i] = entry]

\* set(cache_key, data, ttl) at time t: an existing key keeps its place in the
\* dict, a new one goes to the end
set(C, cache_key, data, ttl, t) ==
    LET life == IF ttl = None \/ ttl = 0 THEN C.default_ttl ELSE ttl
        E == IF Len(C.cache) >= C.max_size THEN _evict_lru(C) ELSE C
        entry == [key |-> cache_key, data |-> data, created_at |-> t,
                  last_accessed |-> t, expires_at |-> t + life]
        i == Position(E, cache_key)
    IN  IF i = 0 THEN [E EXCEPT !.cache = Append(@, entry)]
        ELSE [E EXCEPT !.cache[i] = entry]

\* invalidate(cache_key): the new cache, and whether the key was there
invalidate(C, cache_key) ==
    LET i == Position(C, cache_key)
    IN  IF i = 0 THEN [cache |-> C, found |-> FALSE]
        ELSE [cache |-> [C EXCEPT !.cache = Remove(@, i)], found |-> TRUE]

\* all(part in key for part in pattern.split("*")) for the patterns
\* "ai:<type>:*" and "*": a key holds "ai:<type>:" when it is of that type
\* (the rest of a key is hexadecimal digits), and every key holds ""
key_matches(cache_key, pattern) ==
    pattern = "*" \/ pattern = cache_key.analysis_type

\* invalidate_pattern(pattern): the new cache, and the number of keys deleted
invalidate_pattern(C, pattern) ==
    LET keep == SelectSeq(C.cache, LAMBDA e : ~key_matches(e.key, pattern))
    IN  [cache |-> [C EXCEPT !.cache = keep], count |-> Len(C.cache) - Len(keep)]

\* clear()
clear(C) == [C EXCEPT !.cache = <<>>]

\* get_stats() at time t
get_stats(C, t) ==
    [size |-> Len(C.cache), max_size |-> C.max_size,
     expired_entries |-> Cardinality({i \in DOMAIN C.cache : t > C.cache[i].expires_at})]

\* a write of from_cache that also starts the lifetime of the entry anew
write_and_retime(C, cache_key, value) ==
    LET i == Position(C, cache_key)
    IN  IF i = 0 THEN C
        ELSE [C EXCEPT !.cache[i].data.from_cache = value,
                       !.cache[i].created_at = C.cache[i].last_accessed,
                       !.cache[i].expires_at = C.cache[i].last_accessed + C.default_ttl]

\* the dict stored under cache_key is the dict the pipeline returns: writing
\* its from_cache field writes the stored entry
write_from_cache(C, cache_key, value) ==
    LET i == Position(C, cache_key)
    IN  IF i = 0 THEN C ELSE [C EXCEPT !.cache[i].data.from_cache = value]

\* ------------------------------------------------------------ ScoringEngine
\* Scores are exact fractions [n, d] of points; the float arithmetic of the
\* code is taken without its rounding error.  A total is kept in tenths of a
\* point, as round(total_score, 1) leaves it.
RECURSIVE Gcd(_, _)
Gcd(a, b) == IF b = 0 THEN a ELSE Gcd(b, a % b)
Frac(n, d) == LET g == Gcd(n, d) IN IF g = 0 THEN [n |-> 0, d |-> 1] ELSE [n |-> n \div g, d |-> d \div g]
Whole(n) == [n |-> n, d |-> 1]

SeqToSet(q) == {q[i] : i \in DOMAIN q}
Max(S) == CHOOSE x \in S : \A y \in S : y <= x
Min(S) == CHOOSE x \in S : \A y \in S : x <= y

\* the priorities of the criteria: <<>> when the key is absent, <<None>> when
\* it is None, else <<monthly_cost, location, value, space>> with None for a
\* key the dict lacks; priorities.get(key, 25)
AbsentPriorities == <<>>
NonePriorities == <<None>>
Weight(priorities, k) ==
    IF priorities = AbsentPriorities \/ priorities[k] = None THEN 25 ELSE priorities[k]

\* the share of x above the least value, without the "1 -"
share_above_min(x, vals) ==
    IF Max(vals) > Min(vals) THEN Frac(100 * (x - Min(vals)), Max(vals) - Min(vals))
    ELSE Whole(100)
\* lower-is-better score of x among the values vals of the pool
lower_is_better(x, vals) ==
    IF Max(vals) > Min(vals) THEN Frac(100 * (Max(vals) - x), Max(vals) - Min(vals))
    ELSE Whole(100)
\* x as a percentage of the least value, without the min-max normalisation
percent_of_min(x, vals) == Frac(100 * x, Min(vals))
\* higher-is-better score of x among the values vals of the pool
higher_is_better(x, vals) ==
    IF Max(vals) > Min(vals) THEN Frac(100 * (x - Min(vals)), Max(vals) - Min(vals))
    ELSE Whole(100)

\* the location score; city_pref is criteria.get("city_preference", "").lower()
location_score(prop, city_pref) ==
    IF city_pref # <<>> /\ TruthyStr(prop.city) /\ Contains(lower(prop.city), city_pref)
    THEN 100
    ELSE IF TruthyStr(prop.city) THEN 60 ELSE 50

\* round(x, 1) of the fraction num/den (den > 0), in tenths, ties to even
round1(num, den) ==
    LET q == (10 * num) \div den
        r == (10 * num) % den
    IN  IF 2 * r > den \/ (2 * r = den /\ q % 2 = 1) THEN q + 1 ELSE q

\* the four dimension scores of prop within the pool
\* the dimension scores when a missing field counts as 0 in the min and max
dimension_scores_of_all(prop, properties, city_pref) ==
    LET pool == SeqToSet(properties)
        monthly == {IF Truthy(p.total_monthly_cost) THEN p.total_monthly_cost ELSE 0 : p \in pool}
        psf == {IF Truthy(p.price_per_sqft) THEN p.price_per_sqft ELSE 0 : p \in pool}
        sqfts == {IF Truthy(p.sqft) THEN p.sqft ELSE 0 : p \in pool}
    IN  [monthly_cost |-> IF Truthy(prop.total_monthly_cost)
                          THEN lower_is_better(prop.total_monthly_cost, monthly)
                          ELSE Whole(50),
         value |-> IF Truthy(prop.price_per_sqft)
                   THEN lower_is_better(prop.price_per_sqft, psf)
                   ELSE Whole(50),
         space |-> IF Truthy(prop.sqft)
                   THEN higher_is_better(prop.sqft, sqfts)
                   ELSE Whole(50),
         location |-> Whole(location_score(prop, city_pref))]

dimension_scores(prop, properties, city_pref) ==
    LET pool == SeqToSet(properties)
        monthly == {p.total_monthly_cost : p \in {r \in pool : Truthy(r.total_monthly_cost)}}
        psf == {p.price_per_sqft : p \in {r \in pool : Truthy(r.price_per_sqft)}}
        sqfts == {p.sqft : p \in {r \in pool : Truthy(r.sqft)}}
    IN  [monthly_cost |-> IF Truthy(prop.total_monthly_cost)
                          THEN lower_is_better(prop.total_monthly_cost, monthly)
                          ELSE Whole(50),
         value |-> IF Truthy(prop.price_per_sqft)
                   THEN lower_is_better(prop.price_per_sqft, psf)
                   ELSE Whole(50),
         space |-> IF Truthy(prop.sqft)
                   THEN higher_is_better(prop.sqft, sqfts)
                   ELSE Whole(50),
         location |-> Whole(location_score(prop, city_pref))]

\* the weighted total of the scores sc, rounded to a tenth
total_score(sc, priorities) ==
    LET wm == Weight(priorities, 1)
        wl == Weight(priorities, 2)
        wv == Weight(priorities, 3)
        ws == Weight(priorities, 4)
        sum == wm + wl + wv + ws
        total_weight == IF sum = 0 THEN 100 ELSE sum
        dm == sc.monthly_cost.d
        dv == sc.value.d
        ds == sc.space.d
        num == sc.monthly_cost.n * wm * dv * ds + sc.value.n * wv * dm * ds
                 + sc.space.n * ws * dm * dv + sc.location.n * wl * dm * dv * ds
    IN  round1(num, dm * dv * ds * total_weight)

\* scored.sort(key=score, reverse=True): stable, equal scores keep pool order
\* the scored list left in the order of the pool
in_pool_order(scored) == scored

RECURSIVE sort_by_score(_)
sort_by_score(scored) ==
    IF scored = <<>> THEN <<>>
    ELSE LET i == CHOOSE i \in DOMAIN scored :
                     /\ \A j \in DOMAIN scored : scored[j].score <= scored[i].score
                     /\ \A j \in 1..(i - 1) : scored[j].score < scored[i].score
         IN  <<scored[i]>> \o sort_by_score(Remove(scored, i))

\* _score_properties(properties, criteria), for criteria whose priorities and
\* city_preference are not None (None raises AttributeError before any score)
_score_properties(properties, criteria) ==
    LET city_pref == lower(criteria.city_preference)
    IN  sort_by_score(
            [i \in DOMAIN properties |->
                LET sc == dimension_scores(properties[i], properties, city_pref)
                IN  [property |-> properties[i],
                     score |-> total_score(sc, criteria.priorities),
                     scores |-> sc]])

\* a pool, the criteria it is scored by, and the list _score_properties
\* returned (<<>> before the call) or the fact that it raised
NoScoring == [properties |-> <<>>, criteria |-> <<>>, scored |-> <<>>, raised |-> FALSE,
              market_temperature |-> ""]

\* whether _score_properties raises: None.get(...) or None.lower(), met on
\* entry (priorities) or in the first pass of the loop (city preference)
score_raises(properties, criteria) ==
    \/ criteria.priorities = NonePriorities
    \/ properties # <<>> /\ criteria.city_preference = NoneStr

\* ----------------------------------------------------------------- requests
\* A call of one of the four analyses of PropertyAnalysisService; the fields
\* of the other analyses are left at their empty values.
NoCriteria == [budget_max |-> None, beds_min |-> None, baths_min |-> None,
               priorities |-> AbsentPriorities, lifestyle |-> NoneStr,
               city_preference |-> <<>>]
NoRequest == [kind |-> "", filters |-> NoFilters, max_properties |-> 0,
              criteria |-> NoCriteria, max_recommendations |-> 0,
              property_ids |-> <<>>, aspects |-> <<>>,
              region |-> NoneStr, time_period |-> <<>>, focus |-> NoneStr]
\* summarize_properties(filters, max_properties)
Summarize(filters, max_properties) ==
    [NoRequest EXCEPT !.kind = "summary", !.filters = filters,
                      !.max_properties = max_properties]
\* recommend_properties(criteria, max_recommendations)
Recommend(criteria, max_recommendations) ==
    [NoRequest EXCEPT !.kind = "recommend", !.criteria = criteria,
                      !.max_recommendations = max_recommendations]
\* compare_properties(property_ids, aspects = None)
Compare(property_ids) ==
    [NoRequest EXCEPT !.kind = "compare", !.property_ids = property_ids]
\* analyze_market_trends(region, time_period, focus = None)
AnalyzeMarket(region, time_period) ==
    [NoRequest EXCEPT !.kind = "market_analysis", !.region = region,
                      !.time_period = time_period]

\* sorted(property_ids)
RECURSIVE sorted(_)
sorted(q) ==
    IF q = <<>> THEN <<>>
    ELSE LET i == CHOOSE i \in DOMAIN q : \A j \in DOMAIN q : q[i] <= q[j]
         IN  <<q[i]>> \o sorted(Remove(q, i))

\* the cache keys when max_recommendations is part of the recommend key
cache_key_with_limit(q) ==
    CASE q.kind = "summary" ->
            generate_key("summary",
                << <<"filters", q.filters>>, <<"max_properties", q.max_properties>> >>)
      [] q.kind = "recommend" ->
            generate_key("recommend",
                << <<"budget_max", q.criteria.budget_max>>, <<"beds_min", q.criteria.beds_min>>,
                   <<"baths_min", q.criteria.baths_min>>, <<"priorities", q.criteria.priorities>>,
                   <<"lifestyle", q.criteria.lifestyle>>,
                   <<"city_preference", q.criteria.city_preference>>,
                   <<"max_recommendations", q.max_recommendations>> >>)
      [] q.kind = "compare" ->
            generate_key("compare",
                << <<"property_ids", sorted(q.property_ids)>>, <<"aspects", q.aspects>> >>)
      [] q.kind = "market_analysis" ->
            generate_key("market_analysis",
                << <<"region", IF TruthyStr(q.region) THEN q.region ELSE str_all>>,
                   <<"time_period", q.time_period>>,
                   <<"focus", IF TruthyStr(q.focus) THEN q.focus ELSE str_general>> >>)

\* the cache key each analysis derives from its arguments
cache_key_of(q) ==
    CASE q.kind = "summary" ->
            generate_key("summary",
                << <<"filters", q.filters>>, <<"max_properties", q.max_properties>> >>)
      [] q.kind = "recommend" ->
            generate_key("recommend",
                << <<"budget_max", q.criteria.budget_max>>, <<"beds_min", q.criteria.beds_min>>,
                   <<"baths_min", q.criteria.baths_min>>, <<"priorities", q.criteria.priorities>>,
                   <<"lifestyle", q.criteria.lifestyle>>,
                   <<"city_preference", q.criteria.city_preference>> >>)
      [] q.kind = "compare" ->
            generate_key("compare",
                << <<"property_ids", sorted(q.property_ids)>>, <<"aspects", q.aspects>> >>)
      [] q.kind = "market_analysis" ->
            generate_key("market_analysis",
                << <<"region", IF TruthyStr(q.region) THEN q.region ELSE str_all>>,
                   <<"time_period", q.time_period>>,
                   <<"focus", IF TruthyStr(q.focus) THEN q.focus ELSE str_general>> >>)

\* the ttl each analysis passes to cache.set, in ticks
\* the default_ttl of the cache for every kind
ttl_default(kind) == 3600 * TicksPerSecond

ttl_of(kind) ==
    CASE kind = "summary" -> 3600 * TicksPerSecond
      [] kind = "recommend" -> 1800 * TicksPerSecond
      [] kind = "compare" -> 7200 * TicksPerSecond
      [] kind = "market_analysis" -> 14400 * TicksPerSecond

\* the candidate list each analysis fetches on a cache miss
candidates_of(q) ==
    CASE q.kind = "summary" -> _fetch_properties(q.filters, q.max_properties)
      [] q.kind = "recommend" ->
            _fetch_properties(
                [NoFilters EXCEPT
                    !.price_max = IF Truthy(q.criteria.budget_max) THEN q.criteria.budget_max ELSE None,
                    !.beds = IF Truthy(q.criteria.beds_min) THEN q.criteria.beds_min ELSE None,
                    !.baths = IF Truthy(q.criteria.baths_min) THEN q.criteria.baths_min ELSE None,
                    !.city = IF TruthyStr(q.criteria.city_preference)
                             THEN q.criteria.city_preference ELSE NoneStr],
                20)
      [] q.kind = "compare" ->
            \* properties = [properties_dict[pid] for pid in property_ids]
            [i \in DOMAIN q.property_ids |->
                CHOOSE p \in Properties : p.id = q.property_ids[i]]
      [] q.kind = "market_analysis" ->
            _fetch_properties(
                [NoFilters EXCEPT !.city = IF TruthyStr(q.region) THEN q.region ELSE NoneStr],
                200)

\* ------------------------------------------------- parsing and the fallbacks
\* What ExternalModel.generate does: "raise" it raises; "json" the reply holds
\* a JSON object with every field the prompt asks for (three recommendations);
\* "nojson" the reply holds no {...} span; "badjson" it holds one that
\* json.loads rejects.
Replies == {"raise", "json", "nojson", "badjson"}

\* the temperature with the thresholds read as "at least"
temperature_at_least(properties) ==
    LET dom_values == {i \in DOMAIN properties : properties[i].days_on_market # None}
        fast_moving == Cardinality({i \in dom_values : properties[i].days_on_market <= 14})
        total == Cardinality(dom_values)
    IN  IF total = 0 THEN "unknown"
        ELSE IF fast_moving * 100 >= 60 * total THEN "hot"
        ELSE IF fast_moving * 100 >= 40 * total THEN "warm"
        ELSE IF fast_moving * 100 >= 20 * total THEN "cool"
        ELSE "cold"

\* the temperature without the early return for a pool without values
temperature_of_fast_share(properties) ==
    LET dom_values == {i \in DOMAIN properties : properties[i].days_on_market # None}
        fast_moving == Cardinality({i \in dom_values : properties[i].days_on_market <= 14})
        total == Cardinality(dom_values)
    IN  IF fast_moving * 100 > 60 * total THEN "hot"
        ELSE IF fast_moving * 100 > 40 * total THEN "warm"
        ELSE IF fast_moving * 100 > 20 * total THEN "cool"
        ELSE "cold"

\* _analyze_dom_distribution(properties)["market_temperature"]
market_temperature_of(properties) ==
    LET dom_values == {i \in DOMAIN properties : properties[i].days_on_market # None}
        fast_moving == Cardinality({i \in dom_values : properties[i].days_on_market <= 14})
        total == Cardinality(dom_values)
    IN  IF total = 0 THEN "unknown"
        ELSE IF fast_moving * 100 > 60 * total THEN "hot"
        ELSE IF fast_moving * 100 > 40 * total THEN "warm"
        ELSE IF fast_moving * 100 > 20 * total THEN "cool"
        ELSE "cold"

\* the result each analysis returns when no candidate is found
none_found(q) == Result(q.kind, "none_found", FALSE, "low", 0)

\* property_details of the comparison: the i-th listed property gets chr(64 + i)
property_details(properties) ==
    [i \in DOMAIN properties |-> <<properties[i].id, 64 + i>>]

\* top_properties = scored_properties[:max_recommendations]
top_properties(q) ==
    Prefix(_score_properties(candidates_of(q), q.criteria), q.max_recommendations)

\* the recommendations built from the first n of the scored properties
recommendations_of(scored, n) ==
    [i \in 1..(IF n < Len(scored) THEN n ELSE Len(scored)) |->
        <<scored[i].property.id, scored[i].score>>]

\* float('inf'): above every cost and price of the table
float_inf == 2147483647

\* index of the first least of the keys: min(enumerate(properties), key = ...)
first_least(keys) ==
    CHOOSE i \in DOMAIN keys :
        /\ \A j \in DOMAIN keys : keys[i] <= keys[j]
        /\ \A j \in 1..(i - 1) : keys[j] > keys[i]

\* a falsy total_monthly_cost or price_per_sqft counts as float('inf')
monthly_winner(properties) ==
    first_least([i \in DOMAIN properties |->
                    IF Truthy(properties[i].total_monthly_cost)
                    THEN properties[i].total_monthly_cost ELSE float_inf])
value_winner(properties) ==
    first_least([i \in DOMAIN properties |->
                    IF Truthy(properties[i].price_per_sqft)
                    THEN properties[i].price_per_sqft ELSE float_inf])

\* _generate_fallback_comparison raises when it formats the None cost or the
\* None price per sqft of a winner: f"{None:,.0f}"
fallback_comparison_raises(properties) ==
    \/ properties[monthly_winner(properties)].total_monthly_cost = None
    \/ properties[value_winner(properties)].price_per_sqft = None

_generate_fallback_comparison(properties) ==
    [Result("compare", "fallback", FALSE, "low", Len(properties)) EXCEPT
        !.properties = property_details(properties),
        !.winner = 64 + monthly_winner(properties)]

\* whether the fallback generator of the analysis raises
fallback_raises(q) ==
    q.kind = "compare" /\ fallback_comparison_raises(candidates_of(q))

\* _generate_fallback_summary / _recommendations / _comparison / _market_analysis
fallback_of(q) ==
    CASE q.kind = "summary" ->
            Result("summary", "fallback", FALSE, "low", Len(candidates_of(q)))
      [] q.kind = "recommend" ->
            LET recs == recommendations_of(top_properties(q), 3)
            IN  [Result("recommend", "fallback", FALSE, "medium", Len(recs)) EXCEPT
                    !.recommendations = recs]
      [] q.kind = "compare" -> _generate_fallback_comparison(candidates_of(q))
      [] q.kind = "market_analysis" ->
            [Result("market_analysis", "fallback", FALSE, "medium", Len(candidates_of(q))) EXCEPT
                !.market_temperature = market_temperature_of(candidates_of(q))]

\* whether _parse_*_response raises on the reply: only the comparison parser
\* calls a fallback generator that can raise
parse_raises(q, reply) == reply = "badjson" /\ fallback_raises(q)

\* _parse_summary_response / _recommendation_ / _comparison_ / _market_analysis_
parse_of(q, reply) ==
    LET n == Len(candidates_of(q))
    IN  CASE q.kind = "summary" ->
                IF reply = "json"
                THEN Result("summary", "ai", TRUE, IF n >= 10 THEN "high" ELSE "medium", n)
                ELSE IF reply = "nojson"
                THEN Result("summary", "raw", FALSE, IF n >= 10 THEN "high" ELSE "medium", n)
                ELSE Result("summary", "raw", FALSE, "medium", n)
          [] q.kind = "recommend" ->
                IF reply = "json"
                THEN LET recs == recommendations_of(top_properties(q), 3)
                     IN  [Result("recommend", "ai", TRUE,
                                 IF Len(recs) >= 3 THEN "high" ELSE "medium", Len(recs)) EXCEPT
                            !.recommendations = recs]
                ELSE IF reply = "nojson"
                THEN Result("recommend", "default", FALSE, "medium", 0)
                ELSE fallback_of(q)
          [] q.kind = "compare" ->
                IF reply = "json"
                THEN [Result("compare", "ai", TRUE, "high", n) EXCEPT
                        !.properties = property_details(candidates_of(q))]
                ELSE IF reply = "nojson"
                THEN [Result("compare", "default", FALSE, "medium", n) EXCEPT
                        !.properties = property_details(candidates_of(q))]
                ELSE fallback_of(q)
          [] q.kind = "market_analysis" ->
                IF reply = "json"
                THEN [Result("market_analysis", "ai", TRUE, "high", n) EXCEPT
                        !.market_temperature = market_temperature_of(candidates_of(q))]
                ELSE fallback_of(q)

\* ---------------------------------------------------------------- the clock
\* time passes: by one of S, or until the sleep of some coroutine is due
Advance(S, max) ==
    /\ ticks < max
    /\ \E d \in S \cup {wakeAt[t] - now : t \in {u \in Tasks : pc[u] = "sleeping" /\ wakeAt[u] > now}} :
          now' = now + d
    /\ ticks' = ticks + 1

Tick ==
    /\ Advance(LimiterSteps, MaxTicks)
    /\ UNCHANGED <<ncalls, limVars, taskVars, svcVars>>

\* ------------------------------------------------- responses and run records
\* what a request returned (status "ok") or raised (status "raise", with the
\* exception class); http is the status code of the endpoint, 0 under the
\* service interface
NoResp == [status |-> "none", result |-> NoResult, class |-> "", exc |-> NoError, http |-> 0]
Ok(result) == [NoResp EXCEPT !.status = "ok", !.result = result]
Raise(class, e) == [NoResp EXCEPT !.status = "raise", !.class = class, !.exc = e]

\* the request completed last: when, whether its result was in the cache of
\* its service when it returned (stored by it, or found there), the response
\* a call made on the cache directly: the dict before it, its arguments, the
\* time of the call and what it returned (hit and data for get, count for
\* invalidate and invalidate_pattern, stats for get_stats)
NoOp == [name |-> "", key |-> generate_key("", <<>>), data |-> NoResult, ttl |-> None,
         pattern |-> "", at |-> 0, before |-> <<>>, hit |-> FALSE, count |-> 0,
         stats |-> get_stats(AIResponseCache(0, 0), 0),
         analysis_type |-> "", kwargs |-> <<>>]

NoDone == [req |-> NoRequest, at |-> 0, stored |-> FALSE, resp |-> NoResp]

\* the record of one pipeline run:
\*   state        "none", "running" or "done"
\*   svc          the service it runs on
\*   started      time of its cache lookup
\*   prev         the request completed last when it started, if that was the
\*                same request (NoDone otherwise)
\*   hit          whether the lookup hit
\*   fetched      whether it queried the property table
\*   quota        whether its acquire() raised the daily quota error
\*   model_raised whether ExternalModel.generate raised
\*   unparsed     whether the model replied without a JSON object that parses
\*   model_calls  number of calls of ExternalModel.generate
\*   admissions   number of slots acquire() gave it
\*   stored       whether it called cache.set
NoRun == [state |-> "none", svc |-> Shared, started |-> 0, prev |-> NoDone,
          hit |-> FALSE, fetched |-> FALSE, quota |-> FALSE, model_raised |-> FALSE,
          unparsed |-> FALSE, model_calls |-> 0, admissions |-> 0, stored |-> FALSE]

\* --------------------------------------- coroutines calling acquire() alone
NoObs == [outcome |-> "none", at |-> 0, oldest |-> None, passes |-> 0,
          dayFull |-> FALSE, minutes |-> 0]

\* what coroutine t records of a pass r of acquire() made at time `now`:
\*   oldest  - the oldest minute timestamp at its latest check that found the
\*             minute list full (None when no check of this call did)
\*   passes  - number of passes of this call (1 + number of sleeps returned)
\*   dayFull - whether the day list was full, after the purge, at entry
Observe(t, r, entering) ==
    LET P == _cleanup_old_requests(lim[Shared], now)
    IN  [outcome |-> r.outcome, at |-> now,
         oldest  |-> IF Len(P.minute_requests) >= P.max_per_minute THEN P.minute_requests[1]
                     ELSE IF entering THEN None ELSE obs[t].oldest,
         passes  |-> IF entering THEN 1 ELSE obs[t].passes + 1,
         dayFull |-> IF entering THEN Len(P.day_requests) >= P.max_per_day ELSE obs[t].dayFull,
         minutes |-> r.minutes]

AcquirePass(t, entering) ==
    LET r == acquire(lim[Shared], now)
    IN  /\ lim' = [lim EXCEPT ![Shared] = r.lim]
        /\ admitted' = IF r.outcome = "admit"
                       THEN [admitted EXCEPT ![Shared] = Append(@, now)]
                       ELSE admitted
        /\ pc' = [pc EXCEPT ![t] = IF r.outcome = "sleep" THEN "sleeping" ELSE "idle"]
        /\ wakeAt' = [wakeAt EXCEPT ![t] = r.wake]
        /\ obs' = [obs EXCEPT ![t] = Observe(t, r, entering)]

\* a coroutine calls acquire()
acquire_enter(t) ==
    /\ pc[t] = "idle"
    /\ ncalls < MaxCalls
    /\ ncalls' = ncalls + 1
    /\ AcquirePass(t, TRUE)
    /\ UNCHANGED <<now, ticks, svcVars>>

\* asyncio.sleep returns, and the loop goes on with the clock reading made
\* before the sleep
acquire_resume_stale_clock(t) ==
    /\ pc[t] = "sleeping"
    /\ now >= wakeAt[t]
    /\ \E r \in {acquire(lim[Shared], obs[t].at)} :
          /\ lim' = [lim EXCEPT ![Shared] = r.lim]
          /\ admitted' = IF r.outcome = "admit"
                         THEN [admitted EXCEPT ![Shared] = Append(@, obs[t].at)]
                         ELSE admitted
          /\ pc' = [pc EXCEPT ![t] = IF r.outcome = "sleep" THEN "sleeping" ELSE "idle"]
          /\ wakeAt' = [wakeAt EXCEPT ![t] = r.wake]
          /\ obs' = [obs EXCEPT ![t].outcome = r.outcome]
    /\ UNCHANGED <<now, ticks, ncalls, svcVars>>

\* asyncio.sleep returns in a suspended acquire()
acquire_resume(t) ==
    /\ pc[t] = "sleeping"
    /\ now >= wakeAt[t]
    /\ AcquirePass(t, FALSE)
    /\ UNCHANGED <<now, ticks, ncalls, svcVars>>

\* a coroutine calls get_requests_remaining()
remaining_call ==
    /\ lim' = [lim EXCEPT ![Shared] = get_requests_remaining(lim[Shared], now).lim]
    /\ lim' # lim
    /\ UNCHANGED <<now, ticks, ncalls, admitted, taskVars, svcVars>>

\* a coroutine calls reset()
reset_call ==
    /\ lim[Shared] # reset(lim[Shared])
    /\ lim' = [lim EXCEPT ![Shared] = reset(lim[Shared])]
    /\ admitted' = [admitted EXCEPT ![Shared] = <<>>]
    /\ UNCHANGED <<now, ticks, ncalls, taskVars, svcVars>>

\* ------------------------------------------------------ the request pipeline
\* compare_properties: if len(property_ids) < 2, if len(property_ids) > 5
none_too_few(property_ids) == FALSE
too_few(property_ids) == Len(property_ids) < 2
too_many(property_ids) == Len(property_ids) > 5

\* some id has no record
unknown_id_only(property_ids) ==
    \E i \in DOMAIN property_ids : \A p \in Properties : p.id # property_ids[i]
\* if len(properties) != len(property_ids)
records_missing(property_ids) ==
    Cardinality(fetch_by_ids(property_ids)) # Len(property_ids)

\* The code of an analysis from its entry to the call of acquire(), on the
\* cache C at time t:
\*   next "done":    it returned or raised; resp holds the outcome
\*   next "acquire": cache miss with candidates, acquire() is called next
\* the start of the pipeline when the result for an empty pool is cached too
before_acquire_caches_empty(C, q, t) ==
    IF q.kind = "compare" /\ too_few(q.property_ids)
    THEN [next |-> "done", cache |-> C, hit |-> FALSE, fetched |-> FALSE, resp |-> Raise("ValueError", TooFewError)]
    ELSE IF q.kind = "compare" /\ too_many(q.property_ids)
    THEN [next |-> "done", cache |-> C, hit |-> FALSE, fetched |-> FALSE, resp |-> Raise("ValueError", TooManyError)]
    ELSE
    LET key == cache_key_of(q)
        g == get(C, key, t)
    IN  IF g.hit
        THEN [next |-> "done", cache |-> write_from_cache(g.cache, key, TRUE), hit |-> TRUE, fetched |-> FALSE,
              resp |-> Ok([g.data EXCEPT !.from_cache = TRUE])]
        ELSE IF q.kind = "compare"
        THEN IF records_missing(q.property_ids)
             THEN [next |-> "done", cache |-> g.cache, hit |-> FALSE, fetched |-> TRUE,
                   resp |-> Raise("ValueError", NotFoundError)]
             ELSE [next |-> "acquire", cache |-> g.cache, hit |-> FALSE, fetched |-> TRUE, resp |-> NoResp]
        ELSE IF candidates_of(q) = <<>>
        THEN [next |-> "done", cache |-> set(g.cache, key, none_found(q), ttl_of(q.kind), t),
              hit |-> FALSE, fetched |-> TRUE, resp |-> Ok(none_found(q))]
        ELSE IF q.kind = "recommend" /\ score_raises(candidates_of(q), q.criteria)
        THEN [next |-> "done", cache |-> g.cache, hit |-> FALSE, fetched |-> TRUE,
              resp |-> Raise("AttributeError", AttributeError)]
        ELSE [next |-> "acquire", cache |-> g.cache, hit |-> FALSE, fetched |-> TRUE, resp |-> NoResp]

before_acquire(C, q, t) ==
    IF q.kind = "compare" /\ too_few(q.property_ids)
    THEN [next |-> "done", cache |-> C, hit |-> FALSE, fetched |-> FALSE, resp |-> Raise("ValueError", TooFewError)]
    ELSE IF q.kind = "compare" /\ too_many(q.property_ids)
    THEN [next |-> "done", cache |-> C, hit |-> FALSE, fetched |-> FALSE, resp |-> Raise("ValueError", TooManyError)]
    ELSE
    LET key == cache_key_of(q)
        g == get(C, key, t)
    IN  IF g.hit
        THEN [next |-> "done", cache |-> write_from_cache(g.cache, key, TRUE), hit |-> TRUE, fetched |-> FALSE,
              resp |-> Ok([g.data EXCEPT !.from_cache = TRUE])]
        ELSE IF q.kind = "compare"
        THEN IF records_missing(q.property_ids)
             THEN [next |-> "done", cache |-> g.cache, hit |-> FALSE, fetched |-> TRUE,
                   resp |-> Raise("ValueError", NotFoundError)]
             ELSE [next |-> "acquire", cache |-> g.cache, hit |-> FALSE, fetched |-> TRUE, resp |-> NoResp]
        ELSE IF candidates_of(q) = <<>>
        THEN [next |-> "done", cache |-> g.cache, hit |-> FALSE, fetched |-> TRUE, resp |-> Ok(none_found(q))]
        ELSE IF q.kind = "recommend" /\ score_raises(candidates_of(q), q.criteria)
        THEN [next |-> "done", cache |-> g.cache, hit |-> FALSE, fetched |-> TRUE,
              resp |-> Raise("AttributeError", AttributeError)]
        ELSE [next |-> "acquire", cache |-> g.cache, hit |-> FALSE, fetched |-> TRUE, resp |-> NoResp]

\* except Exception as e: which failures of the try block end in the fallback
Caught(a, reply) == a.outcome = "quota" \/ reply = "raise"

\* The code of an analysis after acquire() returned or raised (pass a, outcome
\* "admit" or "quota"): the model call with its reply, the parse or the
\* fallback, cache.set at time t and the return.
\* the end of the pipeline when only a result of the model is cached
after_acquire_caches_success(C, q, a, reply, t) ==
    LET key == cache_key_of(q)
        e == IF a.outcome = "quota" THEN QuotaError(a.minutes) ELSE ModelError
        store(result) ==
            [cache |-> write_from_cache(set(C, key, result, ttl_of(q.kind), t), key, FALSE),
             stored |-> TRUE, resp |-> Ok([result EXCEPT !.from_cache = FALSE])]
    IN  IF Caught(a, reply)
        THEN IF fallback_raises(q)
             THEN [cache |-> C, stored |-> FALSE, resp |-> Raise("TypeError", FormatError)]
             ELSE [cache |-> C, stored |-> FALSE,
                   resp |-> Ok([fallback_of(q) EXCEPT !.error = e])]
        ELSE IF parse_raises(q, reply)
        THEN [cache |-> C, stored |-> FALSE, resp |-> Raise("TypeError", FormatError)]
        ELSE store(parse_of(q, reply))

after_acquire(C, q, a, reply, t) ==
    LET key == cache_key_of(q)
        e == IF a.outcome = "quota" THEN QuotaError(a.minutes) ELSE ModelError
        store(result) ==
            [cache |-> write_from_cache(set(C, key, result, ttl_of(q.kind), t), key, FALSE),
             stored |-> TRUE, resp |-> Ok([result EXCEPT !.from_cache = FALSE])]
    IN  IF Caught(a, reply)
        THEN IF fallback_raises(q)
             THEN [cache |-> C, stored |-> FALSE, resp |-> Raise("TypeError", FormatError)]
             ELSE store([fallback_of(q) EXCEPT !.error = e])
        ELSE IF parse_raises(q, reply)
        THEN \* the TypeError of the parser is caught, and raised again by the fallback
             [cache |-> C, stored |-> FALSE, resp |-> Raise("TypeError", FormatError)]
        ELSE store(parse_of(q, reply))

\* the status code of the endpoint of the property-ai router for an outcome;
\* the compare endpoint builds WinnerInfo(**{}) from a reply without JSON,
\* which pydantic rejects
http_status(q, r) ==
    IF r.status = "ok"
    THEN IF q.kind = "compare" /\ r.result.text = "default" THEN 500 ELSE 200
    ELSE IF r.class = "ValueError" /\ q.kind # "market_analysis" THEN 400 ELSE 500

\* the outcome as the caller of the pipeline sees it
Response(q, r, over_http) == IF over_http THEN [r EXCEPT !.http = http_status(q, r)] ELSE r

\* The pipeline of coroutine t on service s from a pass a of acquire() on:
\* either it is suspended in the sleep, or it runs to its end; C is the cache
\* and R the run record at this point.  (\E x \in {e} names the value e.)
FromAcquire(t, s, q, C, R, L, over_http) ==
    \E a \in {acquire(L, now)} :
    /\ lim' = [lim EXCEPT ![s] = a.lim]
    /\ admitted' = IF a.outcome = "admit" THEN [admitted EXCEPT ![s] = Append(@, now)]
                   ELSE admitted
    /\ IF a.outcome = "sleep"
       THEN /\ pc' = [pc EXCEPT ![t] = "sleeping"]
            /\ wakeAt' = [wakeAt EXCEPT ![t] = a.wake]
            /\ cache' = [cache EXCEPT ![s] = C]
            /\ run' = [run EXCEPT ![t] = R]
            /\ UNCHANGED <<now, resp, lastDone, calls>>
       ELSE \E reply \in (IF a.outcome = "admit" THEN Replies ELSE {"raise"}),
               d \in (IF a.outcome = "admit" THEN {MaxCallTime} ELSE {0}) :
              \E f \in {after_acquire(C, q, a, reply, now + d)} :
              \E r \in {Response(q, f.resp, over_http)} :
                  /\ pc' = [pc EXCEPT ![t] = "idle"]
                  /\ wakeAt' = [wakeAt EXCEPT ![t] = 0]
                  /\ now' = now + d
                  /\ cache' = [cache EXCEPT ![s] = f.cache]
                  /\ resp' = [resp EXCEPT ![t] = r]
                  /\ calls' = IF a.outcome = "admit" THEN Append(calls, now) ELSE calls
                  /\ run' = [run EXCEPT ![t] =
                                [R EXCEPT !.state = "done",
                                          !.quota = a.outcome = "quota",
                                          !.model_raised = a.outcome = "admit" /\ reply = "raise",
                                          !.unparsed = a.outcome = "admit"
                                                          /\ reply \in {"nojson", "badjson"},
                                          !.model_calls = IF a.outcome = "admit" THEN 1 ELSE 0,
                                          !.admissions = IF a.outcome = "admit" THEN 1 ELSE 0,
                                          !.stored = f.stored]]
                  /\ lastDone' = [req |-> q, at |-> now + d, stored |-> f.stored, resp |-> r]

\* Coroutine t starts request q on service s, whose limiter is L and whose
\* cache is C when the request arrives.  A new request goes to the first
\* idle coroutine.
Begin(t, s, q, L, C, over_http) ==
    /\ pc[t] = "idle"
    /\ \A u \in Handlers : u < t => pc[u] # "idle"
    /\ ncalls < MaxRequests
    /\ ncalls' = ncalls + 1
    /\ \E b \in {before_acquire(C, q, now)} :
       \E R \in {[NoRun EXCEPT !.state = "running", !.svc = s, !.started = now,
                               !.prev = IF lastDone.req = q THEN lastDone ELSE NoDone,
                               !.hit = b.hit, !.fetched = b.fetched]} :
        /\ req' = [req EXCEPT ![t] = q]
        /\ UNCHANGED <<ticks, obs, op, scoring>>
        /\ IF b.next = "done"
           THEN /\ lim' = [lim EXCEPT ![s] = L]
                /\ cache' = [cache EXCEPT ![s] = b.cache]
                /\ resp' = [resp EXCEPT ![t] = Response(q, b.resp, over_http)]
                /\ run' = [run EXCEPT ![t] = [R EXCEPT !.state = "done"]]
                /\ lastDone' = [req |-> q, at |-> now, stored |-> b.hit,
                                resp |-> resp'[t]]
                /\ UNCHANGED <<now, admitted, pc, wakeAt, calls>>
           ELSE FromAcquire(t, s, q, b.cache, R, L, over_http)

\* asyncio.sleep returns in the acquire() of a suspended request
pipeline_resume(t) ==
    /\ pc[t] = "sleeping"
    /\ now >= wakeAt[t]
    /\ FromAcquire(t, run[t].svc, req[t], cache[run[t].svc], run[t],
                   lim[run[t].svc], FALSE)
    /\ UNCHANGED <<ticks, ncalls, obs, req, op, scoring>>

\* the state in which no coroutine has run yet; L is the limiter of the
\* shared service and P the pool to be scored
Start(L, P) ==
    /\ now = 0
    /\ ticks = 0
    /\ ncalls = 0
    /\ lim = [s \in Services |-> L]
    /\ admitted = [s \in Services |-> <<>>]
    /\ pc = [t \in Tasks |-> "idle"]
    /\ wakeAt = [t \in Tasks |-> 0]
    /\ obs = [t \in Tasks |-> NoObs]
    /\ cache = [s \in Services |-> AIResponseCache(CacheMaxSize, 3600 * TicksPerSecond)]
    /\ req = [t \in Tasks |-> NoRequest]
    /\ resp = [t \in Tasks |-> NoResp]
    /\ run = [t \in Tasks |-> NoRun]
    /\ lastDone = NoDone
    /\ calls = <<>>
    /\ op = NoOp
    /\ scoring = P

InitLimiter == Start(GeminiRateLimiter(PerMinute, PerDay), NoScoring)

\* ------------------------------------------- requests on one shared service
Sandy600 == [NoCriteria EXCEPT !.budget_max = 600000, !.priorities = <<40, 20, 20, 20>>,
                               !.lifestyle = str_family, !.city_preference = Sandy]
\* the criteria dict the recommend endpoint builds when the caller gives the
\* budget alone: every other field None
BudgetOnly == [NoCriteria EXCEPT !.budget_max = 600000, !.priorities = NonePriorities,
                                 !.city_preference = NoneStr]

SummaryRequests == {Summarize(NoFilters, 50), Summarize([NoFilters EXCEPT !.city = Provo], 50)}
RecommendRequests == {Recommend(Sandy600, 5), Recommend(BudgetOnly, 5)}
CompareRequests == {Compare(<<42, 7>>), Compare(<<7, 42>>), Compare(<<13, 21>>),
                    Compare(<<7>>), Compare(<<7, 99>>)}
MarketRequests == {AnalyzeMarket(NoneStr, str_30d), AnalyzeMarket(Provo, str_30d)}

summarize_properties(t) ==
    \E q \in SummaryRequests : Begin(t, Shared, q, lim[Shared], cache[Shared], FALSE)
recommend_properties(t) ==
    \E q \in RecommendRequests : Begin(t, Shared, q, lim[Shared], cache[Shared], FALSE)
compare_properties(t) ==
    \E q \in CompareRequests : Begin(t, Shared, q, lim[Shared], cache[Shared], FALSE)
analyze_market_trends(t) ==
    \E q \in MarketRequests : Begin(t, Shared, q, lim[Shared], cache[Shared], FALSE)

ServiceSteps == {30 * TicksPerSecond, 3600 * TicksPerSecond}

TickService ==
    /\ Advance(ServiceSteps, MaxWaits)
    /\ UNCHANGED <<ncalls, limVars, taskVars, svcVars>>

\* PropertyAnalysisService.__init__: GeminiRateLimiter() and AIResponseCache()
Init == Start(GeminiRateLimiter(max_requests_per_minute, max_requests_per_day), NoScoring)

Next ==
    \/ TickService
    \/ \E t \in Handlers : summarize_properties(t)
    \/ \E t \in Handlers : recommend_properties(t)
    \/ \E t \in Handlers : compare_properties(t)
    \/ \E t \in Handlers : analyze_market_trends(t)
    \/ \E t \in Handlers : pipeline_resume(t)

\* one PropertyAnalysisService handling concurrent requests
Spec == Init /\ [][Next]_vars

\* ------------------------------------------ requests over the HTTP endpoints
\* routers/property_ai.py: each endpoint builds PropertyAnalysisService(db),
\* and with it a new GeminiRateLimiter and a new AIResponseCache, for the one
\* request it handles.  An empty limiter admits at once, so no request over
\* HTTP is ever suspended.
NewService(t, q) ==
    Begin(t, t, q, GeminiRateLimiter(max_requests_per_minute, max_requests_per_day),
          AIResponseCache(CacheMaxSize, 3600 * TicksPerSecond), TRUE)

\* POST /summarize
post_summarize(t) == \E q \in SummaryRequests : NewService(t, q)
\* POST /recommend
post_recommend(t) == \E q \in RecommendRequests : NewService(t, q)
\* POST /compare; PropertyComparisonRequest takes 2 to 5 ids
post_compare(t) ==
    \E q \in {c \in CompareRequests : Len(c.property_ids) >= 2 /\ Len(c.property_ids) <= 5} :
        NewService(t, q)
\* POST /market-analysis
post_market_analysis(t) == \E q \in MarketRequests : NewService(t, q)

NextHttp ==
    \/ TickService
    \/ \E t \in Handlers : post_summarize(t)
    \/ \E t \in Handlers : post_recommend(t)
    \/ \E t \in Handlers : post_compare(t)
    \/ \E t \in Handlers : post_market_analysis(t)

\* the endpoints of the property-ai router handling a sequence of requests
SpecHttp == Init /\ [][NextHttp]_vars

NextLimiter ==
    \/ Tick
    \/ \E t \in Callers : acquire_enter(t)
    \/ \E t \in Callers : acquire_resume(t)
    \/ remaining_call
    \/ reset_call

\* one rate limiter, concurrent callers of acquire(), remaining() and reset()
SpecLimiter == InitLimiter /\ [][NextLimiter]_vars

\* time passes until the sleep of some suspended caller is over
sleep_elapses ==
    /\ \E t \in Waiters : pc[t] = "sleeping" /\ wakeAt[t] > now /\ now' = wakeAt[t]
    /\ UNCHANGED <<ticks, ncalls, limVars, taskVars, svcVars>>

\* time passes otherwise
TickFair ==
    /\ Advance(LimiterSteps, MaxSteps)
    /\ UNCHANGED <<ncalls, limVars, taskVars, svcVars>>

NextLimiterFair ==
    \/ TickFair
    \/ sleep_elapses
    \/ \E t \in Waiters : acquire_enter(t)
    \/ \E t \in Waiters : acquire_resume(t)

\* One rate limiter and a bounded number of acquire() calls, on an event
\* loop that runs every coroutine whose sleep is over, with a clock that
\* does not stop while a coroutine sleeps.
SpecLimiterFair ==
    /\ InitLimiter
    /\ [][NextLimiterFair]_vars
    /\ WF_vars(sleep_elapses)
    /\ \A t \in Waiters : WF_vars(acquire_resume(t))

\* ------------------------------------------- comparisons on a shared service
\* id lists of every kind: too short, too long, with an unknown id, with an
\* id given twice, two that compare the same properties, and one more
CompareArguments == {Compare(<<7>>), Compare(<<7, 13, 21, 42, 99, 100>>),
                     Compare(<<7, 99>>), Compare(<<7, 7>>),
                     Compare(<<42, 7>>), Compare(<<7, 42>>), Compare(<<7, 21>>)}

\* one request of each kind that finds candidates
OnePerKind == {Summarize(NoFilters, 50), Recommend(Sandy600, 5), Compare(<<42, 7>>),
               AnalyzeMarket(NoneStr, str_30d)}

\* coroutine t handles a request of Q
Handle(t, Q) == \E q \in Q : Begin(t, Shared, q, lim[Shared], cache[Shared], FALSE)

NextOn(Q) ==
    \/ TickService
    \/ \E t \in Handlers : Handle(t, Q)
    \/ \E t \in Handlers : pipeline_resume(t)

\* one PropertyAnalysisService handling concurrent comparisons
SpecCompare == Init /\ [][NextOn(CompareArguments)]_vars

\* one PropertyAnalysisService handling concurrent requests of the four kinds
SpecKinds == Init /\ [][NextOn(OnePerKind)]_vars

\* A service that has just handled a comparison at time 0: acquire() admitted
\* it, the model raised and so did the fallback generator, and nothing was
\* cached.  The minute list of its limiter holds that request.
EarlierRequest == Compare(<<13, 21>>)
InitTwins ==
    \E a \in {acquire(GeminiRateLimiter(max_requests_per_minute, PerDay), 0)} :
    \E f \in {after_acquire(AIResponseCache(CacheMaxSize, 3600 * TicksPerSecond),
                            EarlierRequest, a, "raise", MaxCallTime)} :
        /\ now = MaxCallTime
        /\ ticks = 0
        /\ ncalls = 0
        /\ lim = [s \in Services |-> a.lim]
        /\ admitted = [s \in Services |-> <<0>>]
        /\ pc = [t \in Tasks |-> "idle"]
        /\ wakeAt = [t \in Tasks |-> 0]
        /\ obs = [t \in Tasks |-> NoObs]
        /\ cache = [s \in Services |-> f.cache]
        /\ req = [t \in Tasks |-> NoRequest]
        /\ resp = [t \in Tasks |-> NoResp]
        /\ run = [t \in Tasks |-> NoRun]
        /\ lastDone = [req |-> EarlierRequest, at |-> MaxCallTime, stored |-> f.stored,
                       resp |-> f.resp]
        /\ calls = <<0>>
        /\ op = NoOp
        /\ scoring = NoScoring

\* the requests that arrive while the minute list is full
TwinRequests == {Summarize(NoFilters, 50), AnalyzeMarket(NoneStr, str_30d)}

\* requests that match no row of the table, and two that match rows
EmptyRequests ==
    {Summarize([NoFilters EXCEPT !.city = Provo], 50),
     Recommend([Sandy600 EXCEPT !.city_preference = Provo], 5),
     AnalyzeMarket(Provo, str_30d)}
EmptyAndFilled == EmptyRequests \cup {Summarize(NoFilters, 50), AnalyzeMarket(NoneStr, str_30d)}

\* one PropertyAnalysisService handling requests of which some match nothing
SpecEmpty == Init /\ [][NextOn(EmptyAndFilled)]_vars

\* one PropertyAnalysisService handling requests that arrive together
SpecTwins == InitTwins /\ [][NextOn(TwinRequests)]_vars

\* ------------------------------------------------ calls on the cache itself
CacheKeys == {cache_key_of(q) : q \in SummaryRequests \cup {Compare(<<42, 7>>)}}
\* the values stored, each with its ttl: None (the default_ttl of the cache)
\* or 30 s
CacheValues == {<<Result("summary", "ai", TRUE, "high", 4), None>>,
                <<Result("summary", "fallback", FALSE, "low", 4), 30 * TicksPerSecond>>}
CachePatterns == {"*", "summary"}

\* a call of a method of the cache, recorded in op, that leaves the cache C
CacheCall(C) ==
    /\ ncalls < MaxOps
    /\ ncalls' = ncalls + 1
    /\ cache' = [cache EXCEPT ![Shared] = C]
    /\ UNCHANGED <<now, ticks, limVars, taskVars, req, resp, run, lastDone, calls, scoring>>

cache_set ==
    \E k \in CacheKeys, v \in CacheValues :
        /\ op' = [NoOp EXCEPT !.name = "set", !.key = k, !.data = v[1], !.ttl = v[2],
                              !.at = now, !.before = cache[Shared].cache]
        /\ CacheCall(set(cache[Shared], k, v[1], v[2], now))

cache_get ==
    \E k \in CacheKeys :
    \E g \in {get(cache[Shared], k, now)} :
        /\ op' = [NoOp EXCEPT !.name = "get", !.key = k, !.hit = g.hit, !.data = g.data,
                              !.at = now, !.before = cache[Shared].cache]
        /\ CacheCall(g.cache)

cache_invalidate ==
    \E k \in CacheKeys :
    \E r \in {invalidate(cache[Shared], k)} :
        /\ op' = [NoOp EXCEPT !.name = "invalidate", !.key = k,
                              !.count = IF r.found THEN 1 ELSE 0,
                              !.at = now, !.before = cache[Shared].cache]
        /\ CacheCall(r.cache)

cache_invalidate_pattern ==
    \E pattern \in CachePatterns :
    \E r \in {invalidate_pattern(cache[Shared], pattern)} :
        /\ op' = [NoOp EXCEPT !.name = "invalidate_pattern", !.pattern = pattern,
                              !.count = r.count,
                              !.at = now, !.before = cache[Shared].cache]
        /\ CacheCall(r.cache)

cache_clear ==
    /\ op' = [NoOp EXCEPT !.name = "clear", !.at = now, !.before = cache[Shared].cache]
    /\ CacheCall(clear(cache[Shared]))

cache_get_stats ==
    /\ op' = [NoOp EXCEPT !.name = "get_stats", !.stats = get_stats(cache[Shared], now),
                          !.at = now, !.before = cache[Shared].cache]
    /\ CacheCall(cache[Shared])

\* time passes between two calls, 30 s at a time
TickCache ==
    /\ Advance({30 * TicksPerSecond}, MaxWaits)
    /\ UNCHANGED <<ncalls, limVars, taskVars, svcVars>>

NextCache ==
    \/ TickCache
    \/ cache_set
    \/ cache_get
    \/ cache_invalidate
    \/ cache_invalidate_pattern
    \/ cache_clear
    \/ cache_get_stats

\* one AIResponseCache and a sequence of calls of its methods
SpecCache == Init /\ [][NextCache]_vars

\* Direct calls of generate_key: the keyword arguments of compare_properties
\* and of analyze_market_trends, supplied in every order, under either kind
KeyDicts ==
    { {<<"property_ids", <<7, 42>>>>, <<"aspects", <<>>>>},
      {<<"property_ids", <<7, 21>>>>, <<"aspects", <<>>>>},
      {<<"region", Sandy>>, <<"time_period", str_30d>>, <<"focus", str_general>>},
      {<<"region", str_all>>, <<"time_period", str_30d>>, <<"focus", str_general>>} }
Orderings(D) == {q \in [1..Cardinality(D) -> D] : {q[i] : i \in DOMAIN q} = D}
KeyArguments == UNION {Orderings(D) : D \in KeyDicts}
KeyKinds == {"compare", "market_analysis"}

cache_generate_key ==
    \E analysis_type \in KeyKinds, kwargs \in KeyArguments :
        /\ op' = [NoOp EXCEPT !.name = "generate_key", !.at = now,
                              !.analysis_type = analysis_type, !.kwargs = kwargs,
                              !.key = generate_key(analysis_type, kwargs)]
        /\ CacheCall(cache[Shared])

SpecKeys == Init /\ [][cache_generate_key]_vars

\* ------------------------------------------------------- scoring of a pool
\* Rows as the data sources write them: price_per_sqft is price / sqft when
\* the row has a sqft, the monthly cost may be missing or 0.
PoolCosts == <<None, 0, 2000, 2500, 4000>>
PoolPrices == <<240000, 480000>>
PoolSqfts == <<None, 1200, 1600, 2400>>
PoolRows ==
    {[id |-> 100 * c + 10 * p + s, price |-> PoolPrices[p], beds |-> 3, baths |-> 2,
      sqft |-> PoolSqfts[s],
      price_per_sqft |-> IF Truthy(PoolSqfts[s]) THEN PoolPrices[p] \div PoolSqfts[s] ELSE None,
      total_monthly_cost |-> PoolCosts[c], city |-> Sandy, days_on_market |-> 10] :
        c \in DOMAIN PoolCosts, p \in DOMAIN PoolPrices, s \in DOMAIN PoolSqfts}

\* the sets of at most n rows
RECURSIVE RowSets(_)
RowSets(n) ==
    IF n = 0 THEN {{}}
    ELSE LET smaller == RowSets(n - 1)
         IN  smaller \cup {S \cup {r} : S \in smaller, r \in PoolRows}

\* the pools _fetch_properties can return: rows in the order of the query
Pools == {OrderByMonthlyCost(S) : S \in RowSets(MaxPool) \ {{}}}

InitScoring ==
    \E P \in Pools :
        Start(GeminiRateLimiter(max_requests_per_minute, max_requests_per_day),
              [NoScoring EXCEPT !.properties = P, !.criteria = Sandy600])

\* recommend_properties: scored_properties = self._score_properties(properties, criteria)
score_properties ==
    /\ scoring.properties # <<>>
    /\ scoring.scored = <<>> /\ ~scoring.raised
    /\ scoring' = IF score_raises(scoring.properties, scoring.criteria)
                  THEN [scoring EXCEPT !.raised = TRUE]
                  ELSE [scoring EXCEPT !.scored = _score_properties(scoring.properties,
                                                                   scoring.criteria)]
    /\ UNCHANGED <<now, ticks, ncalls, limVars, taskVars,
                   cache, req, resp, run, lastDone, calls, op>>

\* the scoring of every pool of at most MaxPool rows
SpecScoring == InitScoring /\ [][score_properties]_vars

\* The criteria dicts the recommend endpoint can pass: priorities absent from
\* the request (None), or a dict of which a key is missing (None) or an int >= 0;
\* city_preference None, empty, or a string in any case
CriteriaWeights == {None, 0, 25, 100}
CriteriaCities == {NoneStr, <<>>, Sandy, <<83, 65, 78>>, <<100, 114, 97>>, Provo}
AllCriteria ==
    {[NoCriteria EXCEPT !.budget_max = 600000, !.priorities = w, !.city_preference = c] :
        w \in {NonePriorities} \cup (CriteriaWeights \X CriteriaWeights
                                       \X CriteriaWeights \X CriteriaWeights),
        c \in CriteriaCities}

\* the rows of the table in pools of at most MaxPool
InitCriteria ==
    \E S \in {T \in SUBSET Properties : T # {} /\ Cardinality(T) <= MaxPool},
       c \in AllCriteria :
        Start(GeminiRateLimiter(max_requests_per_minute, max_requests_per_day),
              [NoScoring EXCEPT !.properties = OrderByMonthlyCost(S), !.criteria = c])

\* the scoring of the rows of the table by every criteria dict
SpecCriteria == InitCriteria /\ [][score_properties]_vars

\* Recommendations asked with different max_recommendations, for criteria that
\* match the whole table and for criteria that match the Sandy rows
OpenCriteria == [Sandy600 EXCEPT !.city_preference = <<>>]
RecommendArguments ==
    {Recommend(OpenCriteria, 1), Recommend(OpenCriteria, 2), Recommend(OpenCriteria, 5),
     Recommend(Sandy600, 5)}

\* the pool of the requests for the whole table is scored, and the requests
\* are handled
InitRecommend ==
    \E q \in {Recommend(OpenCriteria, 5)} :
        Start(GeminiRateLimiter(max_requests_per_minute, max_requests_per_day),
              [NoScoring EXCEPT !.properties = candidates_of(q), !.criteria = q.criteria])
NextRecommend == NextOn(RecommendArguments) \/ score_properties

\* one PropertyAnalysisService handling recommendations, and the scoring of
\* their candidate pools
SpecRecommend == InitRecommend /\ [][NextRecommend]_vars

\* Pools for _analyze_dom_distribution: fast rows of at most 14 days on the
\* market, then slow rows of more, then rows without the value
FastDays == {0, 14}
SlowDays == {15, 46}
DomPool(fast, slow, none, fast_days, slow_days) ==
    [i \in 1..(fast + slow + none) |->
        [(CHOOSE r \in Properties : r.id = 7) EXCEPT
            !.days_on_market = IF i <= fast THEN fast_days
                               ELSE IF i <= fast + slow THEN slow_days ELSE None]]
DomPools ==
    {DomPool(fast, slow, none, fd, sd) :
        fast \in 0..MaxDom, slow \in 0..MaxDom, none \in 0..1,
        fd \in FastDays, sd \in SlowDays} \ {<<>>}
InitDom ==
    \E P \in {Q \in DomPools : Len(Q) <= MaxDom + 1} :
        Start(GeminiRateLimiter(max_requests_per_minute, max_requests_per_day),
              [NoScoring EXCEPT !.properties = P])

analyze_dom_distribution ==
    /\ scoring.properties # <<>>
    /\ scoring.market_temperature = ""
    /\ scoring' = [scoring EXCEPT !.market_temperature = market_temperature_of(scoring.properties)]
    /\ UNCHANGED <<now, ticks, ncalls, limVars, taskVars, cache, req, resp, run,
                   lastDone, calls, op>>

\* the market temperature of every pool of at most MaxDom values
SpecDom == InitDom /\ [][analyze_dom_distribution]_vars

\* ------------------------------------------------- claims on the rate limiter
\* number of timestamps of h in the trailing window (T - w, T], T = h[i]
InWindow(h, i, w) == Cardinality({j \in DOMAIN h : h[j] <= h[i] /\ h[i] - h[j] < w})

\* C1: under every interleaving of concurrent acquire() callers the minute
\* list never holds more than PerMinute timestamps, and no trailing
\* 60-second window (T - 60 s, T] contains more than PerMinute admissions:
\* the test of the capacity and the append are never separated by another caller.
C1_MinuteLimit ==
    /\ Len(lim[Shared].minute_requests) <= PerMinute
    /\ \A i \in DOMAIN admitted[Shared] :
          InWindow(admitted[Shared], i, minute_window) <= PerMinute

\* two callers slept on a full minute list; one was admitted on the freed
\* slot, the other woke, found the list full again and went back to sleep
C1_Witness ==
    \E t, u \in Tasks :
        /\ t # u
        /\ obs[t].outcome = "admit" /\ obs[t].passes >= 2
        /\ pc[u] = "sleeping" /\ obs[u].passes >= 2
        /\ Len(lim[Shared].minute_requests) = PerMinute

\* C8 (as claimed): a call of acquire() that finds the day list full after the
\* purge raises the quota error in its first pass, without sleeping, whatever
\* the state of the minute list.
C8_ImmediateQuota ==
    \A t \in Tasks :
        obs[t].dayFull => (obs[t].outcome = "quota" /\ obs[t].passes = 1)

\* C9: a caller that found the minute list full is admitted no earlier than
\* 60 s after the oldest timestamp the list held at that check.
C9_DelayedAdmission ==
    \A t \in Tasks :
        (obs[t].outcome = "admit" /\ obs[t].oldest # None)
            => obs[t].at >= obs[t].oldest + minute_window

\* a caller was admitted after having found the minute list full
C9_Witness ==
    \E t \in Tasks :
        obs[t].outcome = "admit" /\ obs[t].oldest # None /\ obs[t].passes >= 2

\* C10: the day list never holds more than PerDay timestamps, and no
\* admission is made while PerDay earlier admissions are less than
\* 86400 s old.
C10_DayLimit ==
    /\ Len(lim[Shared].day_requests) <= PerDay
    /\ \A i \in DOMAIN admitted[Shared] :
          InWindow(admitted[Shared], i, day_window) <= PerDay

\* a caller was refused on a full day list, and one was admitted once the
\* oldest daily timestamp had expired
C10_Witness ==
    \/ \E t \in Tasks : obs[t].outcome = "quota" /\ Len(lim[Shared].day_requests) = PerDay

C2_QuotaPropagates ==
    \A t \in Handlers :
        (run[t].state = "done" /\ run[t].quota) =>
            /\ resp[t].status = "raise"
            /\ ~run[t].stored

\* C3: when ExternalModel.generate raises in a request with candidates, the
\* request returns a result, whose error field holds the message of the
\* exception and whose confidence is not "high"; no exception escapes.
C3_FallbackOnModelError ==
    \A t \in Handlers :
        (run[t].state = "done" /\ run[t].model_raised) =>
            /\ resp[t].status = "ok"
            /\ resp[t].result.error = ModelError
            /\ resp[t].result.confidence # "high"

\* C4: every result Compare(ids) returns, from the parser, from the fallback
\* or from the cache, lists the i-th requested id with the i-th letter.
C4_LettersInRequestOrder ==
    \A t \in Handlers :
        (run[t].state = "done" /\ req[t].kind = "compare" /\ resp[t].status = "ok") =>
            resp[t].result.properties =
                [i \in DOMAIN req[t].property_ids |-> <<req[t].property_ids[i], 64 + i>>]

\* Coroutine t has completed a Summarize call that was made no later than the
\* 3600 s ttl after the same call, the one completed last before it, returned
\* a result with from_cache false.
SecondSummarize(t) ==
    /\ run[t].state = "done"
    /\ req[t].kind = "summary"
    /\ run[t].prev.req = req[t]
    /\ run[t].prev.resp.status = "ok"
    /\ ~run[t].prev.resp.result.from_cache
    /\ run[t].started - run[t].prev.at <= 3600 * TicksPerSecond

\* the second call returns the result of the first with from_cache true, and
\* calls neither acquire() nor the model
SameFromCache(t) ==
    /\ resp[t].status = "ok"
    /\ resp[t].result = [run[t].prev.resp.result EXCEPT !.from_cache = TRUE]
    /\ run[t].model_calls = 0
    /\ run[t].admissions = 0

\* C5 as stated: for any filters and max_properties, the second of two
\* identical Summarize calls within the ttl returns the result of the first
\* with from_cache true in place of false, and makes no model call.
C5_Idempotent == \A t \in Handlers : SecondSummarize(t) => SameFromCache(t)

\* C5, for filters that match a property: the second of two identical
\* Summarize calls within the ttl returns the result of the first with
\* from_cache true in place of false, and makes no model call.
C5_IdempotentWithCandidates ==
    \A t \in Handlers :
        (SecondSummarize(t) /\ run[t].prev.resp.result.count > 0) => SameFromCache(t)

\* a second Summarize call answered from the cache exactly when the ttl ends
C5_Witness ==
    \E t \in Handlers :
        /\ SecondSummarize(t)
        /\ run[t].prev.resp.result.count > 0
        /\ run[t].started - run[t].prev.at = 3600 * TicksPerSecond
        /\ run[t].hit

\* C6: over any sequence of requests to the HTTP endpoints, at most
\* max_requests_per_minute model calls are made in any trailing 60 s and at
\* most max_requests_per_day in any trailing 86400 s.
C6_ProcessWideLimit ==
    \A i \in DOMAIN calls :
        /\ InWindow(calls, i, minute_window) <= max_requests_per_minute
        /\ InWindow(calls, i, day_window) <= max_requests_per_day

\* C7: an HTTP request made within the ttl of its kind after the same
\* request left its result in the cache is answered from the cache, takes no
\* slot of the limiter and makes no model call.
C7_CacheAcrossRequests ==
    \A t \in Handlers :
        ( /\ run[t].state = "done"
          /\ run[t].prev.req = req[t]
          /\ run[t].prev.stored
          /\ run[t].started - run[t].prev.at <= ttl_of(req[t].kind) ) =>
            /\ resp[t].status = "ok"
            /\ resp[t].result.from_cache
            /\ run[t].admissions = 0
            /\ run[t].model_calls = 0
\* ------------------------------------------------------ claims on the cache
\* the lifetime set() gives an entry for the ttl it is called with
life_of(ttl) == IF ttl = None THEN cache[Shared].default_ttl ELSE ttl

\* C12: when set(k, v, ttl) with ttl > 0 is followed by get(k), the get returns
\* v if it is made at or before the expiry time (time of the set + ttl); made
\* after it, the get returns None and removes the entry, and the size that
\* get_stats() reports is one less than before the get.
C12_SetThenGet ==
    [][(op.name = "set" /\ op'.name = "get" /\ op'.key = op.key /\ ncalls' = ncalls + 1
        /\ life_of(op.ttl) > 0)
       => /\ op'.at <= op.at + life_of(op.ttl) => op'.hit /\ op'.data = op.data
          /\ op'.at > op.at + life_of(op.ttl)
                => /\ ~op'.hit /\ op'.data = NoResult
                   /\ Position(cache'[Shared], op.key) = 0
                   /\ get_stats(cache'[Shared], now').size
                        = get_stats(cache[Shared], now').size - 1]_vars

\* a set, time passing beyond the ttl, and a get of the key that finds nothing
\* and leaves the cache empty
C12_Witness ==
    /\ ncalls = 2 /\ op.name = "get" /\ ~op.hit
    /\ Len(op.before) = 1 /\ op.before[1].key = op.key
    /\ op.at > op.before[1].expires_at
    /\ get_stats(cache[Shared], now).size = 0

\* C13: whatever calls of get, set, invalidate, invalidate_pattern and clear
\* were made on a cache of max_size >= 1, it holds at most max_size entries.
C13_SizeBound ==
    cache[Shared].max_size >= 1 => Len(cache[Shared].cache) <= cache[Shared].max_size

\* a set of a key that was absent from a full cache has left the cache full
C13_Witness ==
    /\ op.name = "set"
    /\ Len(op.before) = cache[Shared].max_size
    /\ \A i \in DOMAIN op.before : op.before[i].key # op.key
    /\ Len(cache[Shared].cache) = cache[Shared].max_size

\* the last call was a set of a key that was absent from a full cache
SetIntoFull ==
    /\ op.name = "set"
    /\ Len(op.before) = cache[Shared].max_size
    /\ \A i \in DOMAIN op.before : op.before[i].key # op.key

\* C14: a set of a key that is not present into a cache holding max_size
\* entries removes exactly one entry, one of least last_accessed, keeps all
\* others as they were and adds the new one; and a get that hits sets
\* last_accessed of its entry to the time of the get.
C14_EvictsLeastRecentlyUsed ==
    /\ SetIntoFull =>
          \E i \in DOMAIN op.before :
              /\ \A j \in DOMAIN op.before :
                     op.before[i].last_accessed <= op.before[j].last_accessed
              /\ Len(cache[Shared].cache) = Len(op.before)
              /\ SubSeq(cache[Shared].cache, 1, Len(op.before) - 1) = Remove(op.before, i)
              /\ cache[Shared].cache[Len(op.before)].key = op.key
    /\ op.name = "get" /\ op.hit =>
          cache[Shared].cache[Position(cache[Shared], op.key)].last_accessed = op.at

\* the entry inserted first was read later than the other was, and the set
\* into the full cache kept it
C14_Witness ==
    /\ SetIntoFull
    /\ cache[Shared].cache[1] = op.before[1]
    /\ op.before[1].last_accessed > op.before[1].created_at
    /\ op.before[1].created_at < op.before[2].created_at

\* ---------------------------------------------- claims on the cached pipeline
\* this step is the start of a request by coroutine t
Begins(t) ==
    /\ ncalls' = ncalls + 1
    /\ pc[t] = "idle"
    /\ \A u \in Handlers : u < t => pc[u] # "idle"

\* entry e as it was stored: without the time of its last read and the
\* from_cache mark of its data
Stored(e) == [e EXCEPT !.last_accessed = 0, !.data.from_cache = FALSE]

\* C15: a request of any kind whose cache lookup hits ends in that step and
\* returns the cached result with from_cache = True; it does not query the
\* property table, the limiter is as before, no model call is made, and the
\* cache holds the same entries with the same data, creation and expiry times.
C15_HitFrame ==
    [][\A t \in Handlers : Begins(t) /\ run'[t].hit =>
          LET key == cache_key_of(req'[t])
              entry == cache[Shared].cache[Position(cache[Shared], key)]
          IN  /\ run'[t].state = "done" /\ pc'[t] = "idle" /\ now' = now
              /\ resp'[t] = Ok([entry.data EXCEPT !.from_cache = TRUE])
              /\ ~run'[t].fetched
              /\ lim' = lim /\ admitted' = admitted
              /\ calls' = calls
              /\ run'[t].admissions = 0 /\ run'[t].model_calls = 0 /\ ~run'[t].stored
              /\ Len(cache'[Shared].cache) = Len(cache[Shared].cache)
              /\ \A i \in DOMAIN cache[Shared].cache :
                     Stored(cache'[Shared].cache[i]) = Stored(cache[Shared].cache[i])
      ]_vars

\* a market analysis answered from the cache some time after it was stored
C15_Witness ==
    \E t \in Handlers :
        /\ run[t].state = "done" /\ run[t].hit
        /\ req[t].kind = "market_analysis"
        /\ resp[t].result.from_cache
        /\ \E i \in DOMAIN cache[Shared].cache :
              /\ cache[Shared].cache[i].key = cache_key_of(req[t])
              /\ cache[Shared].cache[i].created_at < run[t].started

\* the lifetimes the claim names, in seconds
ClaimedTtl(kind) ==
    CASE kind = "summary" -> 3600
      [] kind = "recommend" -> 1800
      [] kind = "compare" -> 7200
      [] kind = "market_analysis" -> 14400

\* C16: every entry of the cache, AI result or fallback, expires ttl(kind)
\* seconds after the time it was stored, with ttl 3600, 1800, 7200 and 14400 s
\* for summary, recommend, compare and market analysis: a request that looks
\* its key up hits if and only if that time has not passed; and a call that
\* stored its result returned it with from_cache = False.
C16_TtlPerKind ==
    /\ [](/\ \A i \in DOMAIN cache[Shared].cache :
               LET e == cache[Shared].cache[i]
               IN  /\ e.expires_at
                        = e.created_at + ClaimedTtl(e.key.analysis_type) * TicksPerSecond
                   /\ e.data.kind = e.key.analysis_type
           /\ \A t \in Handlers :
                 run[t].state = "done" /\ run[t].stored
                 => resp[t].status = "ok" /\ ~resp[t].result.from_cache)
    /\ [][\A t \in Handlers, i \in DOMAIN cache[Shared].cache :
            LET e == cache[Shared].cache[i]
            IN  Begins(t) /\ cache_key_of(req'[t]) = e.key
                => (run'[t].hit <=>
                      now <= e.created_at + ClaimedTtl(req'[t].kind) * TicksPerSecond)
       ]_vars

\* a recommendation from the model and a fallback summary, both stored, and
\* the second call has returned
C16_Witness ==
    /\ \E i, j \in DOMAIN cache[Shared].cache :
          /\ cache[Shared].cache[i].data.kind = "recommend"
          /\ cache[Shared].cache[i].data.text = "ai"
          /\ cache[Shared].cache[j].data.kind = "summary"
          /\ cache[Shared].cache[j].data.text = "fallback"
    /\ \E t \in Handlers :
          /\ run[t].state = "done" /\ run[t].stored /\ req[t].kind = "summary"
          /\ ~resp[t].result.from_cache

\* C17: a comparison of fewer than 2 or more than 5 ids raises ValueError in
\* the step it starts: it looks nothing up in the cache, does not query the
\* property table, does not call acquire() or the model, and the cache and
\* the limiter are as they were.
C17_CompareIdCount ==
    [][\A t \in Handlers :
          (Begins(t) /\ req'[t].kind = "compare"
             /\ (Len(req'[t].property_ids) < 2 \/ Len(req'[t].property_ids) > 5))
          => /\ run'[t].state = "done" /\ pc'[t] = "idle" /\ now' = now
             /\ resp'[t].status = "raise" /\ resp'[t].class = "ValueError"
             /\ resp'[t].exc = IF Len(req'[t].property_ids) < 2 THEN TooFewError
                                ELSE TooManyError
             /\ ~run'[t].hit /\ ~run'[t].fetched
             /\ run'[t].admissions = 0 /\ run'[t].model_calls = 0 /\ ~run'[t].stored
             /\ cache' = cache /\ lim' = lim /\ admitted' = admitted /\ calls' = calls
      ]_vars

\* six ids were refused while the cache held an entry and the limiter a slot
C17_Witness ==
    \E t \in Handlers :
        /\ run[t].state = "done" /\ req[t].kind = "compare"
        /\ Len(req[t].property_ids) > 5
        /\ resp[t].exc = TooManyError
        /\ cache[Shared].cache # <<>>
        /\ lim[Shared].day_requests # <<>>

\* ids of which one has no record, or one is given twice
Unmatched(property_ids) ==
    \/ \E i \in DOMAIN property_ids : \A p \in Properties : p.id # property_ids[i]
    \/ \E i, j \in DOMAIN property_ids : i # j /\ property_ids[i] = property_ids[j]

\* C18: a comparison of 2 to 5 ids of which one is unknown or repeated misses
\* the cache, queries the property table and raises the not-found ValueError
\* in the step it starts, without calling acquire() or the model and without
\* storing anything: limiter and cache are as they were.
C18_CompareNotFound ==
    [][\A t \in Handlers :
          (Begins(t) /\ req'[t].kind = "compare"
             /\ Len(req'[t].property_ids) >= 2 /\ Len(req'[t].property_ids) <= 5
             /\ Unmatched(req'[t].property_ids))
          => /\ run'[t].state = "done" /\ pc'[t] = "idle" /\ now' = now
             /\ ~run'[t].hit /\ run'[t].fetched
             /\ resp'[t].status = "raise" /\ resp'[t].class = "ValueError"
             /\ resp'[t].exc = NotFoundError
             /\ run'[t].admissions = 0 /\ run'[t].model_calls = 0 /\ ~run'[t].stored
             /\ cache' = cache /\ lim' = lim /\ admitted' = admitted /\ calls' = calls
      ]_vars

\* an id given twice was refused while the cache held an entry and the
\* limiter a slot
C18_Witness ==
    \E t \in Handlers :
        /\ run[t].state = "done" /\ req[t].kind = "compare"
        /\ Len(req[t].property_ids) = 2
        /\ req[t].property_ids[1] = req[t].property_ids[2]
        /\ resp[t].exc = NotFoundError
        /\ cache[Shared].cache # <<>>
        /\ lim[Shared].day_requests # <<>>

\* C19: when the model call of a request returns a reply without a JSON
\* object that parses, the request returns a result; for summary, compare
\* and market analysis the text of the result is the raw reply and the
\* structured fields are empty.
C19_RawReplyKept ==
    \A t \in Handlers :
        (run[t].state = "done" /\ run[t].model_calls = 1 /\ run[t].unparsed)
        => /\ resp[t].status = "ok"
           /\ req[t].kind \in {"summary", "compare", "market_analysis"}
                => resp[t].result.text = "raw" /\ ~resp[t].result.structured

\* ------------------------------------------------------ claims on the scores
\* the values of field f among the scored candidates that have it
FieldValues(f) ==
    {scoring.scored[i].property[f] :
        i \in {j \in DOMAIN scoring.scored : Truthy(scoring.scored[j].property[f])}}

\* the score sc is 100 * part / whole
IsShare(sc, part, whole) == sc.n * whole = 100 * part * sc.d

\* dimension dim of field f is scored by min-max over the pool, the least
\* value best (lower) or the greatest
MinMaxScored(dim, f, lower_best) ==
    \A i \in DOMAIN scoring.scored :
        LET x == scoring.scored[i].property[f]
            sc == scoring.scored[i].scores[dim]
            min == Min(FieldValues(f))
            max == Max(FieldValues(f))
            best == IF lower_best THEN min ELSE max
            worst == IF lower_best THEN max ELSE min
        IN  Truthy(x) =>
              /\ max > min =>
                    /\ x = best => sc = Whole(100)
                    /\ x = worst => sc = Whole(0)
                    /\ IsShare(sc, IF lower_best THEN max - x ELSE x - min, max - min)
              /\ max = min => sc = Whole(100)

\* C20: in every scored pool, among the candidates that have the field (a
\* value that is neither None nor 0), monthly cost and price per sqft score
\* 100 * (1 - (x - min) / (max - min)) and sqft scores
\* 100 * (x - min) / (max - min) when max > min, so that the best scores 100
\* and the worst 0; and every such candidate scores 100 when max = min.
C20_MinMaxScores ==
    scoring.scored # <<>> =>
        /\ MinMaxScored("monthly_cost", "total_monthly_cost", TRUE)
        /\ MinMaxScored("value", "price_per_sqft", TRUE)
        /\ MinMaxScored("space", "sqft", FALSE)

\* a pool of three with monthly costs 2000, 2500 and 4000 scored 100, 75 and
\* 0 on the cost, all of one price per sqft, one of them without sqft
C20_Witness ==
    /\ Len(scoring.scored) = 3
    /\ \E i, j, k \in DOMAIN scoring.scored :
          /\ scoring.scored[i].scores.monthly_cost = Whole(100)
          /\ scoring.scored[j].scores.monthly_cost = Whole(75)
          /\ scoring.scored[k].scores.monthly_cost = Whole(0)
          /\ scoring.scored[k].property.sqft = None
          /\ scoring.scored[i].property.price_per_sqft = scoring.scored[j].property.price_per_sqft
          /\ scoring.scored[i].scores.value = Whole(100)
          /\ scoring.scored[i].scores.space # scoring.scored[j].scores.space

\* the four weights of the scored criteria were all given as 0
ZeroWeights == scoring.criteria.priorities = <<0, 0, 0, 0>>

\* C21: when the four weights given sum to zero, _score_properties returns
\* for each candidate the total it has under the weights 25/25/25/25.
C21_ZeroWeightsUniform ==
    (scoring.scored # <<>> /\ ZeroWeights) =>
        \A i \in DOMAIN scoring.scored :
            LET sc == scoring.scored[i].scores
            IN  scoring.scored[i].score
                  = round1(sc.monthly_cost.n * sc.value.d * sc.space.d
                             + sc.value.n * sc.monthly_cost.d * sc.space.d
                             + sc.space.n * sc.monthly_cost.d * sc.value.d
                             + sc.location.n * sc.monthly_cost.d * sc.value.d * sc.space.d,
                           4 * sc.monthly_cost.d * sc.value.d * sc.space.d)

\* a dimension score between 0 and 100
InRange(f) == f.d > 0 /\ 0 <= f.n /\ f.n <= 100 * f.d

\* C22: for every pool and every vector of weights that are not negative, the
\* four dimension scores and the total score (in tenths) of each candidate are
\* between 0 and 100.
C22_ScoresInRange ==
    scoring.scored # <<>> =>
        \A i \in DOMAIN scoring.scored :
            LET s == scoring.scored[i]
            IN  /\ InRange(s.scores.monthly_cost) /\ InRange(s.scores.location)
                /\ InRange(s.scores.value) /\ InRange(s.scores.space)
                /\ 0 <= s.score /\ s.score <= 1000

\* a pool of three scored by the monthly cost alone: the cheapest candidate has
\* the total 100, the dearest the total 0
C22_Witness ==
    /\ Len(scoring.scored) = 3
    /\ scoring.criteria.priorities = <<100, 0, 0, 0>>
    /\ \E i, j \in DOMAIN scoring.scored :
          scoring.scored[i].score = 1000 /\ scoring.scored[j].score = 0

\* the scoring of a non-empty pool has ended, by a return or by an exception
ScoringEnded == scoring.scored # <<>> \/ scoring.raised

\* the city preference of the criteria is a case-insensitive substring of city
PreferredCity(city, criteria) ==
    /\ TruthyStr(criteria.city_preference) /\ TruthyStr(city)
    /\ Contains(lower(city), lower(criteria.city_preference))

\* C23: for every criteria dict of the recommend endpoint with a priorities
\* dict, a city preference that is None included, the scoring returns and the
\* location score of a candidate is 100 when the preference is a
\* case-insensitive substring of its city, 60 when it has a city that does not
\* match or no preference was given, and 50 when it has no city.
C23_LocationScore ==
    (ScoringEnded /\ scoring.criteria.priorities # NonePriorities) =>
        /\ ~scoring.raised
        /\ \A i \in DOMAIN scoring.scored :
              scoring.scored[i].scores.location
                = Whole(IF PreferredCity(scoring.scored[i].property.city, scoring.criteria)
                        THEN 100
                        ELSE IF TruthyStr(scoring.scored[i].property.city) THEN 60 ELSE 50)

\* the days-on-market values of the analysed pool, and those of at most 14 days
DomValues == {i \in DOMAIN scoring.properties : scoring.properties[i].days_on_market # None}
FastMoving == {i \in DomValues : scoring.properties[i].days_on_market <= 14}
\* the percentage of fast-moving values is above pct
FastAbove(pct) == 100 * Cardinality(FastMoving) > pct * Cardinality(DomValues)

\* C24: for a pool with at least one days-on-market value and f the percentage
\* of values of at most 14 days, the market temperature is "hot" iff f > 60,
\* "warm" iff 40 < f <= 60, "cool" iff 20 < f <= 40 and "cold" iff f <= 20.
C24_MarketTemperature ==
    (scoring.market_temperature # "" /\ DomValues # {}) =>
        /\ scoring.market_temperature = "hot" <=> FastAbove(60)
        /\ scoring.market_temperature = "warm" <=> (FastAbove(40) /\ ~FastAbove(60))
        /\ scoring.market_temperature = "cool" <=> (FastAbove(20) /\ ~FastAbove(40))
        /\ scoring.market_temperature = "cold" <=> ~FastAbove(20)

\* three of five values are fast (exactly 60%) and the market is warm
C24_Witness ==
    /\ Cardinality(DomValues) = 5 /\ Cardinality(FastMoving) = 3
    /\ scoring.market_temperature = "warm"

\* two lists of keyword arguments that are the same dict
SameDict(a, b) == {a[i] : i \in DOMAIN a} = {b[i] : i \in DOMAIN b}

\* C25: of two calls of generate_key, those of the same kind with the same
\* parameters return the same key, in whatever order the parameters were
\* supplied, and those of different kinds return different keys.
C25_KeyOfKindAndParams ==
    [][(op.name = "generate_key" /\ op'.name = "generate_key") =>
          /\ (op'.analysis_type = op.analysis_type /\ SameDict(op'.kwargs, op.kwargs))
                => op'.key = op.key
          /\ op'.analysis_type # op.analysis_type => op'.key # op.key]_vars

\* the key of three market-analysis parameters supplied in two different
\* orders has been generated, and the digest holds them in one order
C25_Witness ==
    /\ op.name = "generate_key" /\ op.analysis_type = "market_analysis"
    /\ Len(op.kwargs) = 3 /\ op.kwargs[1][1] = "time_period"
    /\ op.key = generate_key("market_analysis",
                              <<op.kwargs[3], op.kwargs[2], op.kwargs[1]>>)
    /\ ncalls > 1

\* the last call was a set of a key that was stored in a cache holding
\* max_size entries
SetOfPresentInFull ==
    /\ op.name = "set"
    /\ Len(op.before) >= cache[Shared].max_size
    /\ \E i \in DOMAIN op.before : op.before[i].key = op.key

\* C26: a set of a key that is already present in a cache holding max_size
\* entries evicts nothing: every entry of another key is still stored as it was.
C26_SetOfPresentEvictsNothing ==
    SetOfPresentInFull =>
        \A i \in DOMAIN op.before :
            op.before[i].key # op.key =>
                \E j \in DOMAIN cache[Shared].cache : cache[Shared].cache[j] = op.before[i]

\* the ttl, in ticks, the entry e was stored with: each value of CacheValues
\* is stored with one ttl
StoredLife(e) == life_of((CHOOSE v \in CacheValues : v[1] = e.data)[2])

\* C27: every stored entry has expires_at = created_at + ttl; a get that hits
\* changes the last_accessed of its entry and nothing else, and a get of an
\* entry after created_at + ttl misses and leaves the key absent, however
\* often the entry was read before.
C27_ExpiryNeverExtended ==
    /\ [](\A i \in DOMAIN cache[Shared].cache :
            cache[Shared].cache[i].expires_at
              = cache[Shared].cache[i].created_at + StoredLife(cache[Shared].cache[i]))
    /\ [][(op'.name = "get" /\ ncalls' = ncalls + 1) =>
            LET i == Position(cache[Shared], op'.key)
            IN  /\ op'.hit =>
                      cache'[Shared] = [cache[Shared] EXCEPT !.cache[i].last_accessed = now]
                /\ (i # 0 /\ now > cache[Shared].cache[i].created_at
                                    + StoredLife(cache[Shared].cache[i]))
                      => ~op'.hit /\ Position(cache'[Shared], op'.key) = 0]_vars

\* an entry that was read after it was stored, and then read again after its
\* ttl: the second get misses and the key is absent
C27_Witness ==
    /\ op.name = "get" /\ ~op.hit /\ Position(cache[Shared], op.key) = 0
    /\ \E i \in DOMAIN op.before :
          /\ op.before[i].key = op.key
          /\ op.before[i].last_accessed > op.before[i].created_at
          /\ op.at > op.before[i].created_at + StoredLife(op.before[i])

\* the timestamps of the list q that are less than window old
Fresh(q, window) == SelectSeq(q, LAMBDA x : now - x < window)

\* C28: a pass of acquire() appends the clock reading to both lists if and
\* only if it admits: a pass that raises the quota exception, like one that
\* goes to sleep, leaves in each list exactly the timestamps that were not stale.
C28_AppendsIffAdmitted ==
    [][\A t \in Tasks :
          (acquire_enter(t) \/ acquire_resume(t)) =>
              IF obs'[t].outcome = "admit"
              THEN /\ lim'[Shared].minute_requests
                        = Append(Fresh(lim[Shared].minute_requests, minute_window), now)
                   /\ lim'[Shared].day_requests
                        = Append(Fresh(lim[Shared].day_requests, day_window), now)
              ELSE /\ lim'[Shared].minute_requests
                        = Fresh(lim[Shared].minute_requests, minute_window)
                   /\ lim'[Shared].day_requests
                        = Fresh(lim[Shared].day_requests, day_window)]_vars

\* a caller that slept on a full minute list was refused on the full day list,
\* which holds the PerDay admissions made and nothing of the refused call
C28_Witness ==
    \E t \in Tasks :
        /\ obs[t].outcome = "quota" /\ obs[t].passes >= 2
        /\ lim[Shared].day_requests = admitted[Shared]
        /\ Len(admitted[Shared]) = PerDay

\* the list q is in ascending order
Ascending(q) == \A i, j \in DOMAIN q : i <= j => q[i] <= q[j]

\* C29: whatever calls of acquire, get_requests_remaining and reset were made,
\* both lists of the limiter are in ascending order, and after each step that
\* purges them (a pass of acquire, or any step that changes the lists) every
\* minute timestamp is less than 60 s old and every day timestamp less than
\* 86400 s.
C29_SortedAndFresh ==
    /\ [](Ascending(lim[Shared].minute_requests) /\ Ascending(lim[Shared].day_requests))
    /\ [][(lim' # lim \/ \E t \in Tasks : acquire_enter(t) \/ acquire_resume(t)) =>
            /\ \A i \in DOMAIN lim'[Shared].minute_requests :
                  now' - lim'[Shared].minute_requests[i] < minute_window
            /\ \A i \in DOMAIN lim'[Shared].day_requests :
                  now' - lim'[Shared].day_requests[i] < day_window]_vars

\* the minute list has lost a timestamp the day list still holds, and holds
\* two admissions made at different times
C29_Witness ==
    /\ Len(lim[Shared].minute_requests) = 2
    /\ lim[Shared].minute_requests[1] < lim[Shared].minute_requests[2]
    /\ Len(lim[Shared].day_requests) = 3
    /\ lim[Shared].day_requests[1] < lim[Shared].minute_requests[1]
    /\ now = lim[Shared].minute_requests[2]

\* no timestamp the limiter recorded is a day old: its day list holds them all
NonePurged == \A i \in DOMAIN admitted[Shared] : now - admitted[Shared][i] < day_window

\* C30: a run calls the model only after its acquire() was admitted, and at
\* most once; a run refused by the limiter calls no model, and the model calls
\* made through a limiter are never more than the timestamps it has recorded.
C30_ModelCallAfterAdmission ==
    /\ \A t \in Tasks :
          /\ run[t].model_calls <= run[t].admissions
          /\ run[t].admissions <= 1
          /\ run[t].quota => run[t].model_calls = 0
    /\ Len(calls) <= Len(admitted[Shared])
    /\ NonePurged => Len(calls) <= Len(lim[Shared].day_requests)
    /\ \A i \in DOMAIN calls : \E j \in DOMAIN admitted[Shared] : admitted[Shared][j] = calls[i]

\* one run called the model on the only admission of the day, and a later run
\* was refused by the limiter and called nothing
C30_Witness ==
    /\ Len(calls) = 1 /\ lim[Shared].day_requests = calls
    /\ \E u \in Tasks :
          /\ run[u].state = "done" /\ run[u].quota
          /\ run[u].admissions = 0 /\ run[u].model_calls = 0

\* the request completed last returned a fallback with its error field, and
\* the ttl of its kind has not passed since
FallbackJustReturned(q) ==
    /\ lastDone.req = q
    /\ lastDone.resp.status = "ok"
    /\ lastDone.resp.result.error # NoError
    /\ ~lastDone.resp.result.from_cache
    /\ now <= lastDone.at + ClaimedTtl(q.kind) * TicksPerSecond

\* C31: a fallback returned after a failed model call or a refused acquire()
\* is cached like a success: the same request made next, within the ttl of
\* its kind, is answered from the cache with the same error field and
\* from_cache = True, without a call of acquire() or of the model.
C31_FallbackCached ==
    [][\A t \in Handlers : (Begins(t) /\ FallbackJustReturned(req'[t])) =>
          /\ run'[t].hit /\ run'[t].state = "done"
          /\ resp'[t] = Ok([lastDone.resp.result EXCEPT !.from_cache = TRUE])
          /\ resp'[t].result.error = lastDone.resp.result.error
          /\ lim' = lim /\ admitted' = admitted /\ calls' = calls
          /\ run'[t].admissions = 0 /\ run'[t].model_calls = 0
      ]_vars

\* a market analysis whose model call failed, asked again later and answered
\* from the cache with the error of the first call
C31_Witness ==
    \E t \in Handlers :
        /\ run[t].state = "done" /\ run[t].hit /\ req[t].kind = "market_analysis"
        /\ run[t].prev.resp.result.error = ModelError
        /\ resp[t].result.error = ModelError /\ resp[t].result.from_cache
        /\ run[t].started > run[t].prev.at
        /\ Len(calls) = 1

\* runs t and u of the same request both missed the cache and both ended
\* with a stored result
BothMissed(t, u) ==
    /\ t # u /\ req[t] = req[u]
    /\ run[t].state = "done" /\ run[u].state = "done"
    /\ ~run[t].hit /\ ~run[u].hit
    /\ run[t].stored /\ run[u].stored

\* C32: there is no single-flight deduplication: of two requests with the
\* same cache key that both missed, each one that is admitted takes its own
\* slot of the limiter and makes its own model call, and the cache holds the
\* result stored last in place of the one stored first.
C32_NoSingleFlight ==
    \A t, u \in Handlers :
        BothMissed(t, u) =>
            /\ run[t].quota \/ (run[t].admissions = 1 /\ run[t].model_calls = 1)
            /\ run[u].quota \/ (run[u].admissions = 1 /\ run[u].model_calls = 1)
            /\ (~run[t].quota /\ ~run[u].quota) =>
                   /\ Len(calls) >= 2 /\ Len(admitted[Shared]) >= 2
                   /\ calls[Len(calls)] # calls[Len(calls) - 1]
            /\ LET i == Position(cache[Shared], cache_key_of(req[t]))
               IN  i # 0 =>
                     /\ lastDone.req = req[t] =>
                           cache[Shared].cache[i].created_at = lastDone.at
                     /\ cache[Shared].cache[i].created_at >= run[t].started
                     /\ cache[Shared].cache[i].created_at >= run[u].started

\* two summaries that arrived while the minute list was full: the second
\* looked the key up while the first slept in acquire(), both were admitted
\* in turn, both called the model, and the entry is the one stored last
C32_Witness ==
    \E t, u \in Handlers :
        /\ BothMissed(t, u) /\ req[t].kind = "summary"
        /\ run[t].model_calls = 1 /\ run[u].model_calls = 1
        /\ Len(calls) = 3
        /\ run[t].started < calls[2] /\ run[u].started < calls[2]
        /\ \E i \in DOMAIN cache[Shared].cache :
              /\ cache[Shared].cache[i].key = cache_key_of(req[t])
              /\ cache[Shared].cache[i].created_at = calls[3] + MaxCallTime

\* the total score of candidate p of the pool of request q
ScoreIn(p, q) ==
    total_score(dimension_scores(p, candidates_of(q), lower(q.criteria.city_preference)),
                q.criteria.priorities)

\* the recommendations are candidates of the pool of q, each once, with
\* their scores, at most n of them, in the order of their scores, and no
\* candidate left out has a higher score than one that is in
TopOfPool(recs, q, n) ==
    LET pool == candidates_of(q)
    IN  /\ Len(recs) <= n /\ Len(recs) <= Len(pool)
        /\ \A i \in DOMAIN recs :
              \E k \in DOMAIN pool :
                  pool[k].id = recs[i][1] /\ recs[i][2] = ScoreIn(pool[k], q)
        /\ \A i, j \in DOMAIN recs : i < j => recs[i][1] # recs[j][1] /\ recs[i][2] >= recs[j][2]
        /\ \A k \in DOMAIN pool :
              (\A i \in DOMAIN recs : recs[i][1] # pool[k].id)
                  => \A i \in DOMAIN recs : recs[i][2] >= ScoreIn(pool[k], q)

\* C33: _score_properties returns every candidate of the pool exactly once,
\* in the order of the total scores, highest first; and a recommendation that
\* was computed holds candidates of the first min(max_recommendations, pool
\* size) of that order only, with match scores that do not increase.
C33_RankedPrefix ==
    /\ scoring.scored # <<>> =>
          /\ Len(scoring.scored) = Len(scoring.properties)
          /\ \A k \in DOMAIN scoring.properties :
                Cardinality({i \in DOMAIN scoring.scored :
                                scoring.scored[i].property = scoring.properties[k]}) = 1
          /\ \A i, j \in DOMAIN scoring.scored :
                i < j => scoring.scored[i].score >= scoring.scored[j].score
    /\ \A t \in Handlers :
          (run[t].state = "done" /\ req[t].kind = "recommend" /\ ~run[t].hit
           /\ resp[t].status = "ok")
              => TopOfPool(resp[t].result.recommendations, req[t], req[t].max_recommendations)

\* the four rows of the table were scored, and a recommendation asked with
\* max_recommendations = 2 returned the two rows of the highest scores
C33_Witness ==
    /\ Len(scoring.scored) = 4
    /\ scoring.scored[1].score > scoring.scored[4].score
    /\ \E t \in Handlers :
          /\ run[t].state = "done" /\ ~run[t].hit /\ req[t].max_recommendations = 2
          /\ Len(resp[t].result.recommendations) = 2
          /\ resp[t].result.recommendations[1][1] = scoring.scored[1].property.id
          /\ resp[t].result.recommendations[2][1] = scoring.scored[2].property.id

\* the dimension scores of candidate p in the scored pool without candidate c
ScoresWithout(p, c) ==
    dimension_scores(p, SelectSeq(scoring.properties, LAMBDA r : r # c),
                     lower(scoring.criteria.city_preference))

\* C34: a candidate without total_monthly_cost, price_per_sqft or sqft has the
\* score 50 on that dimension, and every other candidate has on that dimension
\* the score it has in the pool without that candidate.
C34_MissingFieldNeutral ==
    scoring.scored # <<>> =>
        \A i, j \in DOMAIN scoring.scored :
            LET c == scoring.scored[i].property
                o == scoring.scored[j]
            IN  /\ c.total_monthly_cost = None =>
                      /\ scoring.scored[i].scores.monthly_cost = Whole(50)
                      /\ i # j => o.scores.monthly_cost = ScoresWithout(o.property, c).monthly_cost
                /\ c.price_per_sqft = None =>
                      /\ scoring.scored[i].scores.value = Whole(50)
                      /\ i # j => o.scores.value = ScoresWithout(o.property, c).value
                /\ c.sqft = None =>
                      /\ scoring.scored[i].scores.space = Whole(50)
                      /\ i # j => o.scores.space = ScoresWithout(o.property, c).space

\* a pool of three in which one candidate has no monthly cost: it scores 50,
\* the cheaper of the other two 100 and the dearer 0
C34_Witness ==
    /\ Len(scoring.scored) = 3
    /\ \E i, j, k \in DOMAIN scoring.scored :
          /\ scoring.scored[i].property.total_monthly_cost = None
          /\ scoring.scored[i].scores.monthly_cost = Whole(50)
          /\ scoring.scored[j].scores.monthly_cost = Whole(100)
          /\ scoring.scored[k].scores.monthly_cost = Whole(0)

\* the criteria of the request leave priorities and city_preference out, and
\* the endpoint passed them on as None
OptionalFieldsOmitted(q) ==
    /\ q.kind = "recommend"
    /\ q.criteria.priorities = NonePriorities
    /\ q.criteria.city_preference = NoneStr

\* C35: a recommendation whose criteria leave priorities and city_preference
\* out does not fail: the endpoint answers 200 with a result.
C35_OptionalFieldsOmitted ==
    \A t \in Handlers :
        (run[t].state = "done" /\ OptionalFieldsOmitted(req[t])) =>
            resp[t].status = "ok" /\ resp[t].http = 200

\* the request completed last was a recommendation for the criteria of q
\* that cached its result, at most 1800 s ago
SameCriteriaCached(q) ==
    /\ q.kind = "recommend" /\ lastDone.req.kind = "recommend"
    /\ lastDone.req.criteria = q.criteria
    /\ lastDone.stored /\ lastDone.resp.status = "ok"
    /\ ~lastDone.resp.result.from_cache
    /\ now <= lastDone.at + 1800 * TicksPerSecond

NoCandidates(q) == q.kind \in {"summary", "recommend", "market_analysis"} /\ candidates_of(q) = <<>>

\* C37: a summary, recommendation or market analysis that finds no candidate
\* returns in the step it starts a "nothing found" result with confidence
\* "low" and from_cache = False; the limiter is as before, no model call is
\* made and nothing is stored under its key, so the same request asked again
\* misses the cache again.
C37_NothingFoundFrame ==
    /\ [](\A t \in Handlers :
             (run[t].state # "none" /\ NoCandidates(req[t])) =>
                 /\ run[t].state = "done" /\ ~run[t].hit /\ ~run[t].stored
                 /\ resp[t].status = "ok" /\ ~resp[t].result.from_cache
                 /\ resp[t].result.text = "none_found" /\ resp[t].result.confidence = "low"
                 /\ run[t].admissions = 0 /\ run[t].model_calls = 0
                 /\ Position(cache[Shared], cache_key_of(req[t])) = 0)
    /\ [][\A t \in Handlers : (Begins(t) /\ NoCandidates(req'[t])) =>
             /\ lim' = lim /\ admitted' = admitted /\ calls' = calls /\ now' = now
             /\ cache' = cache
       ]_vars

\* a recommendation that matched nothing was asked twice, and the second
\* call missed the cache as the first did
C37_Witness ==
    \E t \in Handlers :
        /\ run[t].state = "done" /\ req[t].kind = "recommend" /\ NoCandidates(req[t])
        /\ run[t].prev.req = req[t] /\ ~run[t].prev.stored
        /\ ~run[t].hit /\ run[t].fetched /\ ~resp[t].result.from_cache

\* the last call was a set of a key not stored, into a cache that held
\* max_size entries of which one had expired and was still in the dict
SetIntoFullWithExpired ==
    /\ op.name = "set"
    /\ Len(op.before) >= cache[Shared].max_size
    /\ \A i \in DOMAIN op.before : op.before[i].key # op.key
    /\ \E i \in DOMAIN op.before : Expired(op.before[i], op.at)

\* the place, in the dict before the last call, of the entry of least
\* last_accessed, the first of them in dict order
OldestAccessed ==
    CHOOSE i \in DOMAIN op.before :
        /\ \A j \in DOMAIN op.before : op.before[i].last_accessed <= op.before[j].last_accessed
        /\ \A j \in 1..(i - 1) : op.before[j].last_accessed > op.before[i].last_accessed

\* C38: a set of a new key into a full cache that holds an expired entry not
\* yet purged removes the entry of oldest last_accessed, expired or not, and
\* keeps every other entry as it was.
C38_EvictionIgnoresExpiry ==
    SetIntoFullWithExpired =>
        /\ Len(cache[Shared].cache) = Len(op.before)
        /\ \A j \in DOMAIN cache[Shared].cache :
               cache[Shared].cache[j].key # op.before[OldestAccessed].key
        /\ \A i \in DOMAIN op.before :
               i # OldestAccessed =>
                   \E j \in DOMAIN cache[Shared].cache : cache[Shared].cache[j] = op.before[i]

\* the set removed an entry that had not expired and left an expired one stored
C38_Witness ==
    /\ SetIntoFullWithExpired
    /\ ~Expired(op.before[OldestAccessed], op.at)
    /\ \E j \in DOMAIN cache[Shared].cache : Expired(cache[Shared].cache[j], op.at)
    /\ \A j \in DOMAIN cache[Shared].cache :
           cache[Shared].cache[j].key # op.before[OldestAccessed].key

TemperatureLevels == {"hot", "warm", "cool", "cold"}

====
